---- MODULE Spec2Model ----
(***************************************************************************)
(* A model of the Bundle codec and the Index reader of LibGGPK3's Go port  *)
(* (package bundle): OpenBundleFile, Bundle.ReadFull, Bundle.ReadAt,       *)
(* Bundle.Close, OpenIndex, Index.NameHash, Index.ParsePaths,              *)
(* Index.GetFileByPath, Index.ReadFileData and Index.BuildTree; of the     *)
(* bridge bundledggpk.OpenBundledGGPK; and of the GGPK reader as ggpktool  *)
(* uses it.                                                                *)
(*                                                                         *)
(* Bytes are naturals 0..255, byte strings and paths are sequences of      *)
(* bytes, int32 values are integers with explicit wrap-around, and uint64  *)
(* values are sequences of eight bytes, least significant first.           *)
(***************************************************************************)
EXTENDS Integers, Sequences, FiniteSets, TLC

VARIABLES
    file,     \* the bytes of the .bundle.bin file on disk
    gen,      \* how the file was built: the chunks and the header written
    b,        \* the Bundle object (or NoBundle before OpenBundleFile / after a failed open)
    io,       \* what has been read from the file so far
    ret,      \* the last call and what it returned
    idx,      \* the Index object
    hin,      \* the path handed to the hash operations
    gf        \* the GGPK reader (or NoGGPK before ggpk.Open)

vars == <<file, gen, b, io, ret, idx, hin, gf>>

NoGGPK == [opened |-> FALSE]

----------------------------------------------------------------------------
(* int32 arithmetic with two's complement wrap-around, as Go computes it.  *)

MaxInt32 == 2147483647

MinInt32 == -MaxInt32 - 1

Add32(x, y) ==
    IF x >= 0 /\ y >= 0
    THEN IF x > MaxInt32 - y THEN MinInt32 + ((x - (MaxInt32 - y)) - 1) ELSE x + y
    ELSE IF x < 0 /\ y < 0
         THEN IF x < MinInt32 - y THEN ((x - (MinInt32 - y)) + MaxInt32) + 1 ELSE x + y
         ELSE x + y

Neg32(x) == IF x = MinInt32 THEN MinInt32 ELSE -x

Sub32(x, y) == IF y = MinInt32 THEN Add32(Add32(x, MaxInt32), 1) ELSE Add32(x, -y)

RECURSIVE MulNat32(_, _)
MulNat32(x, n) ==
    IF n = 0 THEN 0
    ELSE LET half == MulNat32(Add32(x, x), n \div 2)
         IN  IF n % 2 = 1 THEN Add32(x, half) ELSE half

Mul32(x, y) ==
    IF y >= 0 THEN MulNat32(x, y)
    ELSE Sub32(Neg32(MulNat32(x, -(y + 1))), x)

----------------------------------------------------------------------------
(* uint64 arithmetic on eight little-endian bytes (arithmetic mod 2^64).   *)

RECURSIVE XorBits(_, _, _)
XorBits(x, y, n) ==
    IF n = 0 THEN 0
    ELSE ((x + y) % 2) + 2 * XorBits(x \div 2, y \div 2, n - 1)

Xor8(x, y) == XorBits(x, y, 8)

U64Zero == <<0, 0, 0, 0, 0, 0, 0, 0>>

U64OfByte(c) == <<c, 0, 0, 0, 0, 0, 0, 0>>

Xor64(x, y) ==
    <<Xor8(x[1], y[1]), Xor8(x[2], y[2]), Xor8(x[3], y[3]), Xor8(x[4], y[4]),
      Xor8(x[5], y[5]), Xor8(x[6], y[6]), Xor8(x[7], y[7]), Xor8(x[8], y[8])>>

\* column k (0-based) of the schoolbook product, without the carry
RECURSIVE MulColumn(_, _, _, _)
MulColumn(x, y, k, i) ==
    IF i > k THEN 0
    ELSE x[i + 1] * y[(k - i) + 1] + MulColumn(x, y, k, i + 1)

RECURSIVE MulFrom(_, _, _, _)
MulFrom(x, y, k, carry) ==
    IF k = 8 THEN <<>>
    ELSE LET s == MulColumn(x, y, k, 0) + carry
         IN  <<s % 256>> \o MulFrom(x, y, k + 1, s \div 256)

Mul64(x, y) == MulFrom(x, y, 0, 0)

RECURSIVE Pow2(_)
Pow2(n) == IF n = 0 THEN 1 ELSE 2 * Pow2(n - 1)

\* x >> n for 0 <= n < 64
ShrByte(x, q, lo, hi, i) ==
    ((IF i + q <= 8 THEN x[i + q] ELSE 0) \div lo)
        + (((IF i + q + 1 <= 8 THEN x[i + q + 1] ELSE 0) % lo) * hi)

ShrBy(x, q, lo, hi) ==
    <<ShrByte(x, q, lo, hi, 1), ShrByte(x, q, lo, hi, 2), ShrByte(x, q, lo, hi, 3),
      ShrByte(x, q, lo, hi, 4), ShrByte(x, q, lo, hi, 5), ShrByte(x, q, lo, hi, 6),
      ShrByte(x, q, lo, hi, 7), ShrByte(x, q, lo, hi, 8)>>

Shr64(x, n) == ShrBy(x, n \div 8, Pow2(n % 8), Pow2(8 - (n % 8)))

----------------------------------------------------------------------------
(* Byte string helpers.                                                    *)

Slash == 47

Plus == 43

\* ASCII lowercasing of one byte: 'A'..'Z' -> 'a'..'z'
LowerByte(c) == IF c >= 65 /\ c <= 90 THEN c + 32 ELSE c

\* strings.ToLower on a path of ASCII bytes
ToLower(p) == [i \in 1..Len(p) |-> LowerByte(p[i])]

----------------------------------------------------------------------------
(* Path hashing.                                                           *)

\* 0xCBF29CE484222325
FnvOffset64 == <<37, 35, 34, 132, 228, 156, 242, 203>>

\* 0x100000001B3
FnvPrime64 == <<179, 1, 0, 0, 0, 1, 0, 0>>

\* 0xF42A94E69CFF42FE
MurmurMagic == <<254, 66, 255, 156, 230, 148, 42, 244>>

\* 0x07E47507B4A92E53
FnvMagic == <<83, 46, 169, 180, 7, 117, 228, 7>>

\* 0x1337B33F
MurmurSeed == <<63, 179, 55, 19, 0, 0, 0, 0>>

\* The loops below compute the running 64-bit value at every byte, as the
\* code does (Len(...) = 8 makes the evaluation of each step strict).

\* hash/fnv New64 (FNV-1): multiply by the prime, then xor the byte
RECURSIVE Fnv1Sum64(_, _, _)
Fnv1Sum64(h, data, i) ==
    IF i > Len(data) THEN h
    ELSE LET sum == Xor64(Mul64(h, FnvPrime64), U64OfByte(data[i]))
         IN  IF Len(sum) = 8 THEN Fnv1Sum64(sum, data, i + 1) ELSE sum

\* murmurHash64A as the source has it: FNV-1 of the data, the seed unused
murmurHash64A(data, seed) == Fnv1Sum64(FnvOffset64, data, 1)

RECURSIVE Fnv1aLoop(_, _, _)
Fnv1aLoop(h, data, i) ==
    IF i > Len(data) THEN h
    ELSE LET hash == Mul64(Xor64(h, U64OfByte(LowerByte(data[i]))), FnvPrime64)
         IN  IF Len(hash) = 8 THEN Fnv1aLoop(hash, data, i + 1) ELSE hash

fnv1a64Hash(utf8Name) ==
    LET n == Len(utf8Name)
        dataToHash == IF n > 0 /\ utf8Name[n] = Slash
                      THEN SubSeq(utf8Name, 1, n - 1) ELSE utf8Name
        h0 == Fnv1aLoop(FnvOffset64, dataToHash, 1)
        h1 == Mul64(Xor64(h0, U64OfByte(Plus)), FnvPrime64)
    IN  Mul64(Xor64(h1, U64OfByte(Plus)), FnvPrime64)

NoErr == "nil"

\* NameHash without its own trailing-slash trim
NameHashNoTrim(ix, path) ==
    IF Len(ix.Directories) = 0
    THEN [err |-> "directories not loaded", hash |-> U64Zero]
    ELSE LET magic == ix.Directories[1].PathHash
         IN  IF magic = MurmurMagic
             THEN [err |-> NoErr, hash |-> murmurHash64A(ToLower(path), MurmurSeed)]
             ELSE IF magic = FnvMagic
                  THEN [err |-> NoErr, hash |-> fnv1a64Hash(path)]
                  ELSE [err |-> "unknown namehash algorithm", hash |-> U64Zero]

\* NameHash with FNV-1a as the default case of its switch
NameHashFallback(ix, path) ==
    IF Len(ix.Directories) = 0
    THEN [err |-> "directories not loaded", hash |-> U64Zero]
    ELSE LET n == Len(path)
             p == IF n > 0 /\ path[n] = Slash THEN SubSeq(path, 1, n - 1) ELSE path
         IN  IF ix.Directories[1].PathHash = MurmurMagic
             THEN [err |-> NoErr, hash |-> murmurHash64A(ToLower(p), MurmurSeed)]
             ELSE [err |-> NoErr, hash |-> fnv1a64Hash(p)]

\* Index.NameHash: the error and the hash it returns
NameHash(ix, path) ==
    IF Len(ix.Directories) = 0
    THEN [err |-> "directories not loaded", hash |-> U64Zero]
    ELSE LET n == Len(path)
             p == IF n > 0 /\ path[n] = Slash THEN SubSeq(path, 1, n - 1) ELSE path
             magic == ix.Directories[1].PathHash
         IN  IF magic = MurmurMagic
             THEN [err |-> NoErr, hash |-> murmurHash64A(ToLower(p), MurmurSeed)]
             ELSE IF magic = FnvMagic
                  THEN [err |-> NoErr, hash |-> fnv1a64Hash(p)]
                  ELSE [err |-> "unknown namehash algorithm", hash |-> U64Zero]

----------------------------------------------------------------------------
(* The bundle file format: little-endian integers, the 60-byte header,     *)
(* the table of compressed chunk sizes, the chunk payloads.                *)

BundleHeaderSize == 60

OodleCompressorNone == 3

OodleCompressorLeviathan == 13

MaxChunkCount == 1000000

\* binary.Write of an int32, little-endian
LE32(v) ==
    LET low == v % 16777216
        top == (v \div 16777216) % 256
    IN  <<low % 256, (low \div 256) % 256, low \div 65536, top>>

\* binary.Write of an int64 whose value is an int32 (sign-extended)
LE64(v) == LE32(v) \o (IF v < 0 THEN <<255, 255, 255, 255>> ELSE <<0, 0, 0, 0>>)

\* binary.Read of an int32 at byte offset off (0-based) of data
ReadInt32(data, off) ==
    LET top == data[off + 4]
    IN  data[off + 1] + 256 * data[off + 2] + 65536 * data[off + 3]
        + 16777216 * (IF top >= 128 THEN top - 256 ELSE top)

RECURSIVE ReadInt32s(_, _, _)
ReadInt32s(data, off, n) ==
    IF n = 0 THEN <<>>
    ELSE <<ReadInt32(data, off)>> \o ReadInt32s(data, off + 4, n - 1)

RECURSIVE WriteInt32s(_)
WriteInt32s(vals) ==
    IF Len(vals) = 0 THEN <<>> ELSE LE32(Head(vals)) \o WriteInt32s(Tail(vals))

\* binary.Write of a BundleHeader as the tests build one (Unknown1 = 1,
\* the long sizes equal to the int32 sizes, Unknown3..6 = 0)
WriteHeader(h) ==
    LE32(h.UncompressedSize) \o LE32(h.CompressedSize) \o LE32(h.HeadSize)
    \o LE32(h.Compressor) \o LE32(1)
    \o LE64(h.UncompressedSize) \o LE64(h.CompressedSize)
    \o LE32(h.ChunkCount) \o LE32(h.ChunkSize)
    \o LE32(0) \o LE32(0) \o LE32(0) \o LE32(0)

\* binary.Read of the BundleHeader: the fields the code reads afterwards
\* (the two int64 sizes and Unknown1..6 are parsed and never used)
ParseHeader(data) ==
    [UncompressedSize |-> ReadInt32(data, 0),
     CompressedSize   |-> ReadInt32(data, 4),
     HeadSize         |-> ReadInt32(data, 8),
     Compressor       |-> ReadInt32(data, 12),
     ChunkCount       |-> ReadInt32(data, 36),
     ChunkSize        |-> ReadInt32(data, 40)]

Max(x, y) == IF x > y THEN x ELSE y

----------------------------------------------------------------------------
(* The Bundle object and its operations.                                   *)

NoBundle == [exists |-> FALSE]

\* OpenBundleFile on a file that exists: the error, the Bundle, the end of
\* the last byte range read from the file, and the state of the handle f that
\* os.Open returned (every error path calls f.Close())
OpenBundleFile(f, leaveOpen) ==
    IF Len(f) < BundleHeaderSize
    THEN [err |-> "failed to read bundle header", bundle |-> NoBundle, high |-> Len(f),
          f |-> "closed"]
    ELSE LET h == ParseHeader(f)
             tableEnd == BundleHeaderSize + 4 * h.ChunkCount
         IN  IF h.ChunkCount < 0
             THEN [err |-> "invalid chunk count", bundle |-> NoBundle,
                   high |-> BundleHeaderSize, f |-> "closed"]
             ELSE IF h.ChunkCount > MaxChunkCount
             THEN [err |-> "unreasonable chunk count", bundle |-> NoBundle,
                   high |-> BundleHeaderSize, f |-> "closed"]
             ELSE IF h.ChunkCount > 0 /\ Len(f) < tableEnd
             THEN [err |-> "failed to read compressed chunk sizes", bundle |-> NoBundle,
                   high |-> Len(f), f |-> "closed"]
             ELSE [err |-> NoErr,
                   bundle |-> [exists |-> TRUE, File |-> "open", Header |-> h,
                               CompressedChunkSizes |->
                                   ReadInt32s(f, BundleHeaderSize, h.ChunkCount),
                               leaveOpen |-> leaveOpen,
                               cached |-> FALSE, cachedContent |-> <<>>],
                   high |-> tableEnd, f |-> "open"]

\* Bundle.Close
Close(bn) ==
    IF bn.File # "nil" /\ ~bn.leaveOpen THEN [bn EXCEPT !.File = "nil"] ELSE bn

\* BundleHeader.GetLastChunkUncompressedSize
GetLastChunkUncompressedSize(h) ==
    IF h.ChunkCount = 0 THEN 0
    ELSE Sub32(h.UncompressedSize, Mul32(h.ChunkSize, Sub32(h.ChunkCount, 1)))

\* oodle.Decompress, an external routine: it fails, or returns a buffer of
\* the expected size, or returns a buffer of another size
OodleOutcomes == {"ok", "error", "short"}

OodleDecompress(buf, size, outcome) ==
    IF outcome = "error" THEN [err |-> "oodle", data |-> <<>>]
    ELSE IF outcome = "short"
         THEN [err |-> NoErr, data |-> [j \in 1..(size - 1) |-> buf[((j - 1) % Len(buf)) + 1]]]
         ELSE [err |-> NoErr, data |-> [j \in 1..size |-> buf[((j - 1) % Len(buf)) + 1]]]

\* a copy that ignores the output offset
CopyIntoStart(out, at, data) ==
    [j \in 1..Len(out) |-> IF j <= Len(data) THEN data[j] ELSE out[j]]

CopyInto(out, at, data) ==
    [j \in 1..Len(out) |-> IF j > at /\ j <= at + Len(data) THEN data[j - at] ELSE out[j]]

LoopRet(e, out, reads, high) == [err |-> e, out |-> out, reads |-> reads, high |-> high]

RECURSIVE ReadFullLoop(_, _, _, _, _, _, _, _, _)

\* the rest of one loop iteration, once the compressed chunk buf was read:
\* decode it into out[outOff .. end) and go on with chunk i + 1
DecodeChunk(bn, f, oodle, i, nextOff, outOff, out, reads, high, buf, target, end) ==
    IF end > Len(out) THEN LoopRet("output buffer too small", out, reads, high)
    ELSE IF end < outOff THEN LoopRet("panic: slice bounds out of range", out, reads, high)
    ELSE IF bn.Header.Compressor = OodleCompressorNone
         THEN IF Len(buf) # target
              THEN LoopRet("mismatch in chunk size for OodleCompressorNone", out, reads, high)
              ELSE ReadFullLoop(bn, f, oodle, i + 1, nextOff, end,
                                CopyInto(out, outOff, buf), reads, high)
         ELSE IF oodle = "error"
              THEN LoopRet("failed to decompress Oodle chunk", out, reads, high)
              ELSE IF oodle = "short"
                   THEN LoopRet("Oodle decompression wrote another size", out, reads, high)
                   ELSE ReadFullLoop(bn, f, oodle, i + 1, nextOff, end,
                                     CopyInto(out, outOff, OodleDecompress(buf, target, oodle).data),
                                     reads, high)

\* one loop iteration for chunk i with its compressed size and its
\* uncompressed target size
ReadChunk(bn, f, oodle, i, fileOff, outOff, out, reads, high, csize, target) ==
    IF csize < 0
    THEN LoopRet("invalid negative compressed chunk size", out, reads, high)
    ELSE IF target < 0
    THEN LoopRet("negative uncompressed target size", out, reads, high)
    ELSE IF target = 0 /\ csize # 0
    THEN LoopRet("uncompressed target size is 0 but compressed chunk size is not",
                 out, reads, high)
    ELSE IF target = 0 /\ csize = 0
    THEN ReadFullLoop(bn, f, oodle, i + 1, fileOff, outOff, out, reads, high)
    ELSE IF csize = 0
    THEN LoopRet("compressed chunk size is 0 but uncompressed target size is not",
                 out, reads, high)
    ELSE IF csize > Len(f) - fileOff
    THEN LoopRet("failed to read compressed chunk", out, reads + 1, Max(high, Len(f)))
    ELSE DecodeChunk(bn, f, oodle, i, fileOff + csize, outOff, out, reads + 1,
                     Max(high, fileOff + csize),
                     SubSeq(f, fileOff + 1, fileOff + csize), target,
                     Add32(outOff, target))

\* the chunk loop of ReadFull from chunk i on: the error, the output buffer,
\* the number of chunk payload reads and the end of the highest byte read
ReadFullLoop(bn, f, oodle, i, fileOff, outOff, out, reads, high) ==
    IF i >= bn.Header.ChunkCount
    THEN LoopRet(NoErr, out, reads, high)
    ELSE ReadChunk(bn, f, oodle, i, fileOff, outOff, out, reads, high,
                   bn.CompressedChunkSizes[i + 1],
                   IF i = bn.Header.ChunkCount - 1
                   THEN GetLastChunkUncompressedSize(bn.Header)
                   ELSE bn.Header.ChunkSize)

\* what ReadFull returns once the loop has ended with r
ReadFullEnd(bn, r) ==
    IF r.err # NoErr
    THEN [err |-> r.err, data |-> <<>>, bundle |-> bn, reads |-> r.reads, high |-> r.high]
    ELSE [err |-> NoErr, data |-> r.out,
          bundle |-> [bn EXCEPT !.cached = TRUE, !.cachedContent = r.out],
          reads |-> r.reads, high |-> r.high]

ReadFullRet(bn, e, d) == [err |-> e, data |-> d, bundle |-> bn, reads |-> 0, high |-> 0]

ZeroBytes(n) == [j \in 1..n |-> 0]

\* Bundle.ReadFull without the cache lookup
ReadFullNoCache(bn, f, oodle) ==
    IF bn.File = "nil" THEN ReadFullRet(bn, "bundle file is closed or not opened", <<>>)
    ELSE IF bn.Header.UncompressedSize = 0 THEN ReadFullRet(bn, NoErr, <<>>)
    ELSE IF bn.Header.UncompressedSize < 0
         THEN ReadFullRet(bn, "negative uncompressed size", <<>>)
    ELSE IF bn.Header.ChunkCount = 0
         THEN ReadFullRet(bn, "uncompressed size > 0 but 0 chunks", <<>>)
    ELSE ReadFullEnd(bn, ReadFullLoop(bn, f, oodle, 0,
                                      BundleHeaderSize + bn.Header.ChunkCount * 4, 0,
                                      ZeroBytes(bn.Header.UncompressedSize), 0, 0))

\* a ReadFull that looks at the cached content before the file handle
ReadFullCacheFirst(bn, f, oodle) ==
    IF bn.cached /\ bn.Header.UncompressedSize > 0
    THEN ReadFullRet(bn, NoErr, bn.cachedContent)
    ELSE ReadFullNoCache(bn, f, oodle)

\* Bundle.ReadFull: the error, the data, the Bundle afterwards, the number
\* of chunk payload reads and the end of the highest byte read
ReadFull(bn, f, oodle) ==
    IF bn.File = "nil" THEN ReadFullRet(bn, "bundle file is closed or not opened", <<>>)
    ELSE IF bn.Header.UncompressedSize = 0 THEN ReadFullRet(bn, NoErr, <<>>)
    ELSE IF bn.Header.UncompressedSize < 0
         THEN ReadFullRet(bn, "negative uncompressed size", <<>>)
    ELSE IF bn.cached THEN ReadFullRet(bn, NoErr, bn.cachedContent)
    ELSE IF bn.Header.ChunkCount = 0
         THEN ReadFullRet(bn, "uncompressed size > 0 but 0 chunks", <<>>)
    ELSE ReadFullEnd(bn, ReadFullLoop(bn, f, oodle, 0,
                                      BundleHeaderSize + bn.Header.ChunkCount * 4, 0,
                                      ZeroBytes(bn.Header.UncompressedSize), 0, 0))

ReadAtRet(bn, e) ==
    [err |-> e, data |-> <<>>, bundle |-> bn, reads |-> 0, high |-> 0,
     full |-> [called |-> FALSE]]

\* a slice that ends one byte early: fullData[offset : end-1]
ReadAtSliceShort(r, offsetInBundle, end) ==
    [err |-> IF r.err # NoErr THEN r.err
             ELSE IF end > Len(r.data) THEN "calculated end of slice is out of bounds"
             ELSE IF end < offsetInBundle \/ offsetInBundle > Len(r.data)
                  THEN "panic: slice bounds out of range" ELSE NoErr,
     data |-> IF r.err # NoErr \/ end > Len(r.data) \/ end < offsetInBundle
                    \/ offsetInBundle > Len(r.data)
              THEN <<>> ELSE SubSeq(r.data, offsetInBundle + 1, end - 1),
     bundle |-> r.bundle, reads |-> r.reads, high |-> r.high,
     full |-> [called |-> TRUE, err |-> r.err, data |-> r.data]]

\* what ReadAt returns once its ReadFull call has returned r
ReadAtSlice(r, offsetInBundle, end) ==
    IF r.err # NoErr
    THEN [err |-> r.err, data |-> <<>>, bundle |-> r.bundle, reads |-> r.reads,
          high |-> r.high, full |-> [called |-> TRUE, err |-> r.err, data |-> r.data]]
    ELSE [err |-> IF end > Len(r.data) THEN "calculated end of slice is out of bounds"
                  ELSE IF end < offsetInBundle \/ offsetInBundle > Len(r.data)
                       THEN "panic: slice bounds out of range" ELSE NoErr,
          data |-> IF end > Len(r.data) \/ end < offsetInBundle \/ offsetInBundle > Len(r.data)
                   THEN <<>> ELSE SubSeq(r.data, offsetInBundle + 1, end),
          bundle |-> r.bundle, reads |-> r.reads, high |-> r.high,
          full |-> [called |-> TRUE, err |-> r.err, data |-> r.data]]

\* Bundle.ReadAt: as ReadFull, with the inner ReadFull call it made
ReadAt(bn, f, offsetInBundle, sizeInBundle, oodle) ==
    IF bn.File = "nil" THEN ReadAtRet(bn, "bundle file is closed or not opened")
    ELSE IF sizeInBundle = 0 THEN ReadAtRet(bn, NoErr)
    ELSE IF sizeInBundle < 0 THEN ReadAtRet(bn, "invalid size for ReadAt")
    ELSE IF offsetInBundle < 0
            \/ Add32(offsetInBundle, sizeInBundle) > bn.Header.UncompressedSize
         THEN ReadAtRet(bn, "read offset/size out of bounds")
    ELSE ReadAtSlice(ReadFull(bn, f, oodle), offsetInBundle,
                     Add32(offsetInBundle, sizeInBundle))

----------------------------------------------------------------------------
(* The index: file records by path hash, directory records, the directory  *)
(* bundle data that ParsePaths decodes, and lookup by path.                *)

MaxSegmentLen == 2048

\* readNullTerminatedString from byte offset pos (0-based) of block
RECURSIVE readNullTerminatedString(_, _, _)
readNullTerminatedString(block, pos, buf) ==
    IF pos >= Len(block)
    THEN [err |-> IF Len(buf) > 0 THEN "string not null-terminated before EOF" ELSE "EOF",
          seg |-> <<>>, pos |-> pos]
    ELSE IF block[pos + 1] = 0
         THEN [err |-> NoErr, seg |-> buf, pos |-> pos + 1]
         ELSE IF Len(buf) + 1 > MaxSegmentLen
              THEN [err |-> "string segment too long", seg |-> <<>>, pos |-> pos + 1]
              ELSE readNullTerminatedString(block, pos + 1, Append(buf, block[pos + 1]))

\* FilesByPathHash[hash] exists
HasHash(files, hash) == \E i \in 1..Len(files) : files[i].PathHash = hash

\* a write of the path to the first record, whatever its hash
SetPathFirst(files, hash, path) ==
    [i \in 1..Len(files) |-> IF i = 1 THEN [files[i] EXCEPT !.Path = path] ELSE files[i]]

\* fileRec.Path = path for the record FilesByPathHash[hash]
SetPath(files, hash, path) ==
    [i \in 1..Len(files) |->
        IF files[i].PathHash = hash THEN [files[i] EXCEPT !.Path = path] ELSE files[i]]

\* the map update of ParsePaths once NameHash(fullPathBytes) has returned h;
\* paths lists the candidate paths handed to NameHash so far, in order
ResolveHash(files, failed, paths, fullPathBytes, h) ==
    IF h.err # NoErr
    THEN [err |-> "error calculating name hash", files |-> files, failed |-> failed,
          paths |-> Append(paths, fullPathBytes)]
    ELSE IF HasHash(files, h.hash)
         THEN [err |-> NoErr, files |-> SetPath(files, h.hash, fullPathBytes),
               failed |-> failed, paths |-> Append(paths, fullPathBytes)]
         ELSE [err |-> NoErr, files |-> files, failed |-> failed + 1,
               paths |-> Append(paths, fullPathBytes)]

ResolvePath(ix, files, failed, paths, fullPathBytes) ==
    ResolveHash(files, failed, paths, fullPathBytes, NameHash(ix, fullPathBytes))

RECURSIVE ParseBlock(_, _, _, _, _, _, _, _)
RECURSIVE ParseEntry(_, _, _, _, _, _, _, _, _)
RECURSIVE ParseSegment(_, _, _, _, _, _, _, _, _)
RECURSIVE ParseAppended(_, _, _, _, _, _, _, _, _)
RECURSIVE ParseResolved(_, _, _, _, _, _)

\* the inner loop of ParsePaths over one directory block, from offset pos
ParseBlock(ix, block, pos, tempSegments, isBase, files, failed, paths) ==
    IF Len(block) - pos < 4
    THEN [err |-> NoErr, files |-> files, failed |-> failed, paths |-> paths]
    ELSE ParseEntry(ix, block, pos + 4, tempSegments, isBase, files, failed, paths,
                    ReadInt32(block, pos))

\* after pathPartIndex has been read
ParseEntry(ix, block, pos, tempSegments, isBase, files, failed, paths, pathPartIndex) ==
    IF pathPartIndex = 0
    THEN ParseBlock(ix, block, pos, IF ~isBase THEN <<>> ELSE tempSegments, ~isBase,
                    files, failed, paths)
    ELSE ParseSegment(ix, block, tempSegments, isBase, files, failed, paths,
                      Sub32(pathPartIndex, 1), readNullTerminatedString(block, pos, <<>>))

\* the segment step without the copy into tempSegments[pathPartIndex]
ParseSegmentKeep(ix, block, tempSegments, isBase, files, failed, paths, pathPartIndex, s) ==
    IF s.err # NoErr
    THEN [err |-> NoErr, files |-> files, failed |-> failed, paths |-> paths]
    ELSE IF pathPartIndex < Len(tempSegments)
         THEN IF pathPartIndex < 0
              THEN [err |-> "panic: index out of range", files |-> files,
                    failed |-> failed, paths |-> paths]
              ELSE ParseAppended(ix, block, s.pos, tempSegments, isBase, files, failed,
                                 paths, pathPartIndex)
         ELSE IF isBase
              THEN ParseBlock(ix, block, s.pos, Append(tempSegments, s.seg), isBase,
                              files, failed, paths)
              ELSE ParseResolved(ix, block, s.pos, tempSegments, isBase,
                                 ResolvePath(ix, files, failed, paths, s.seg))

\* after pathPartIndex-- and the read s of the segment
ParseSegment(ix, block, tempSegments, isBase, files, failed, paths, pathPartIndex, s) ==
    IF s.err # NoErr
    THEN [err |-> NoErr, files |-> files, failed |-> failed, paths |-> paths]
    ELSE IF pathPartIndex < Len(tempSegments)
         THEN IF pathPartIndex < 0
              THEN [err |-> "panic: index out of range", files |-> files,
                    failed |-> failed, paths |-> paths]
              ELSE ParseAppended(ix, block, s.pos,
                                 [tempSegments EXCEPT ![pathPartIndex + 1] = @ \o s.seg],
                                 isBase, files, failed, paths, pathPartIndex)
         ELSE IF isBase
              THEN ParseBlock(ix, block, s.pos, Append(tempSegments, s.seg), isBase,
                              files, failed, paths)
              ELSE ParseResolved(ix, block, s.pos, tempSegments, isBase,
                                 ResolvePath(ix, files, failed, paths, s.seg))

\* after tempSegments[pathPartIndex] has been extended
ParseAppended(ix, block, pos, tempSegments, isBase, files, failed, paths, pathPartIndex) ==
    IF isBase
    THEN ParseBlock(ix, block, pos, tempSegments, isBase, files, failed, paths)
    ELSE ParseResolved(ix, block, pos, tempSegments, isBase,
                       ResolvePath(ix, files, failed, paths,
                                   tempSegments[pathPartIndex + 1]))

ParseResolved(ix, block, pos, tempSegments, isBase, r) ==
    IF r.err # NoErr THEN r
    ELSE ParseBlock(ix, block, pos, tempSegments, isBase, r.files, r.failed, r.paths)

RECURSIVE ParseDirs(_, _, _, _, _)
RECURSIVE ParseDir(_, _, _, _, _, _, _, _)
RECURSIVE ParseDirEnd(_, _, _)

\* the outer loop of ParsePaths, at directory record number d (1-based)
ParseDirs(ix, d, files, failed, paths) ==
    IF d > Len(ix.Directories)
    THEN [err |-> NoErr, files |-> files, failed |-> failed, paths |-> paths]
    ELSE ParseDir(ix, d, files, failed, paths, ix.Directories[d].Offset,
                  Add32(ix.Directories[d].Offset, ix.Directories[d].Size),
                  Len(ix.DirectoryBundleData))

ParseDir(ix, d, files, failed, paths, offset, end, n) ==
    IF offset < 0 \/ end > n
    THEN ParseDirs(ix, d + 1, files, failed, paths)
    ELSE IF end < offset
         THEN [err |-> "panic: slice bounds out of range", files |-> files,
               failed |-> failed, paths |-> paths]
         ELSE ParseDirEnd(ix, d,
                  ParseBlock(ix, SubSeq(ix.DirectoryBundleData, offset + 1, end), 0,
                             <<>>, FALSE, files, failed, paths))

ParseDirEnd(ix, d, r) ==
    IF r.err # NoErr THEN r ELSE ParseDirs(ix, d + 1, r.files, r.failed, r.paths)

\* what ParsePaths returns once its loops have ended with r
ParsePathsEnd(ix, r) ==
    [err |-> r.err, failed |-> r.failed, paths |-> r.paths,
     idx |-> [ix EXCEPT !.FilesByPathHash = r.files, !.pathsParsed = (r.err = NoErr)]]

\* ParsePaths without the early return of an index whose paths are parsed
ParsePathsAgain(ix) ==
    IF ~ix.hasDirData \/ Len(ix.Directories) = 0
    THEN [err |-> "directory bundle data or directories metadata is missing",
          failed |-> 0, paths |-> <<>>, idx |-> [ix EXCEPT !.pathsParsed = TRUE]]
    ELSE ParsePathsEnd(ix, ParseDirs(ix, 1, ix.FilesByPathHash, 0, <<>>))

\* Index.ParsePaths: the error, failedCount, the index afterwards, and the
\* candidate paths it produced
ParsePaths(ix) ==
    IF ix.pathsParsed THEN [err |-> NoErr, failed |-> 0, paths |-> <<>>, idx |-> ix]
    ELSE IF ~ix.hasDirData \/ Len(ix.Directories) = 0
         THEN [err |-> "directory bundle data or directories metadata is missing",
               failed |-> 0, paths |-> <<>>, idx |-> [ix EXCEPT !.pathsParsed = TRUE]]
         ELSE ParsePathsEnd(ix, ParseDirs(ix, 1, ix.FilesByPathHash, 0, <<>>))

NoRec == [found |-> FALSE]

Found(rec) == [found |-> TRUE, rec |-> rec]

IsPanic(e) == e \in {"panic: index out of range", "panic: slice bounds out of range"}

\* the records the linear scan of GetFileByPath can return
ScanMatches(files, path) == {i \in 1..Len(files) : files[i].Path = path}

\* the lookup by linear scan alone, without the map access
GetFileByHashScanOnly(ix, path, h, scan) ==
    IF h.err # NoErr
    THEN [err |-> "could not calculate hash for path", rec |-> NoRec, idx |-> ix]
    ELSE IF scan \in ScanMatches(ix.FilesByPathHash, path)
         THEN [err |-> NoErr, rec |-> Found(ix.FilesByPathHash[scan]), idx |-> ix]
         ELSE [err |-> "file not found by path", rec |-> NoRec, idx |-> ix]

\* GetFileByPath once NameHash(path) has returned h; scan is the record the
\* map iteration meets first among ScanMatches (0 when there is none)
GetFileByHash(ix, path, h, scan) ==
    IF h.err # NoErr
    THEN [err |-> "could not calculate hash for path", rec |-> NoRec, idx |-> ix]
    ELSE IF ~HasHash(ix.FilesByPathHash, h.hash)
         THEN IF scan \in ScanMatches(ix.FilesByPathHash, path)
              THEN [err |-> NoErr, rec |-> Found(ix.FilesByPathHash[scan]), idx |-> ix]
              ELSE [err |-> "file not found by path", rec |-> NoRec, idx |-> ix]
         ELSE LET i == CHOOSE j \in 1..Len(ix.FilesByPathHash) :
                            ix.FilesByPathHash[j].PathHash = h.hash
                  fileRec == ix.FilesByPathHash[i]
                  set == fileRec.Path = <<>> /\ path # <<>>
              IN  [err |-> NoErr,
                   rec |-> Found(IF set THEN [fileRec EXCEPT !.Path = path] ELSE fileRec),
                   idx |-> IF set
                           THEN [ix EXCEPT !.FilesByPathHash[i].Path = path]
                           ELSE ix]

\* GetFileByPath once the implicit ParsePaths (if any) has returned p
GetFileByPathParsed(p, path, scan) ==
    IF p.err # NoErr
    THEN [err |-> IF IsPanic(p.err) THEN p.err ELSE "error during implicit ParsePaths",
          rec |-> NoRec, idx |-> p.idx]
    ELSE IF ~p.idx.pathsParsed
         THEN [err |-> "paths could not be parsed", rec |-> NoRec, idx |-> p.idx]
         ELSE GetFileByHash(p.idx, path, NameHash(p.idx, path), scan)

\* Index.GetFileByPath: the error, the record returned and the index afterwards
GetFileByPath(ix, path, scan) ==
    GetFileByPathParsed(IF ix.pathsParsed
                        THEN [err |-> NoErr, failed |-> 0, paths |-> <<>>, idx |-> ix]
                        ELSE ParsePaths(ix),
                        path, scan)

\* the root a new Index starts with: DirectoryNode{NameVal: "", PathVal: ""}.
\* A tree is the sequence of its nodes in creation order; parent is the
\* position of the node's ParentVal (0 for the root), the ChildrenVal of a node
\* are the nodes that name it as parent, in that order, and RecordVal is the
\* position in FilesByPathHash of the record a file node points to
RootOnly ==
    <<[dir |-> TRUE, NameVal |-> <<>>, PathVal |-> <<>>, parent |-> 0, RecordVal |-> 0]>>

MaxBundlePathLen == 1024

\* the bundle record loop of OpenIndex: n records from byte offset pos
RECURSIVE OpenIndexBundles(_, _, _, _)
OpenIndexBundles(data, pos, n, out) ==
    IF n = 0 THEN [err |-> NoErr, pos |-> pos, out |-> out]
    ELSE IF Len(data) - pos < 4
         THEN [err |-> "failed to read pathLength", pos |-> pos, out |-> out]
    ELSE IF ReadInt32(data, pos) < 0 \/ ReadInt32(data, pos) > MaxBundlePathLen
         THEN [err |-> "invalid pathLength", pos |-> pos, out |-> out]
    ELSE IF Len(data) - (pos + 4) < ReadInt32(data, pos)
         THEN [err |-> "failed to read path", pos |-> pos, out |-> out]
    ELSE IF Len(data) - (pos + 4 + ReadInt32(data, pos)) < 4
         THEN [err |-> "failed to read uncompressedSize", pos |-> pos, out |-> out]
    ELSE OpenIndexBundles(data, pos + 8 + ReadInt32(data, pos), n - 1,
             Append(out,
                    [Path |-> SubSeq(data, pos + 5, pos + 4 + ReadInt32(data, pos)),
                     UncompressedSize |->
                         ReadInt32(data, pos + 4 + ReadInt32(data, pos))]))

\* idx.FilesByPathHash[pathHash] = fileRec: a record under a key the map
\* holds already takes the place of the earlier one
PutFile(files, fileRec) ==
    IF HasHash(files, fileRec.PathHash)
    THEN [i \in 1..Len(files) |->
             IF files[i].PathHash = fileRec.PathHash THEN fileRec ELSE files[i]]
    ELSE Append(files, fileRec)

\* the file record loop of OpenIndex; BundleIndex stands for the pointer
\* BundleRecord = idx.Bundles[bundleIdxVal]
RECURSIVE OpenIndexFiles(_, _, _, _, _)
OpenIndexFiles(data, pos, n, bundleCount, files) ==
    IF n = 0 THEN [err |-> NoErr, pos |-> pos, out |-> files]
    ELSE IF Len(data) - pos < 8
         THEN [err |-> "failed to read pathHash", pos |-> pos, out |-> files]
    ELSE IF Len(data) - pos < 12
         THEN [err |-> "failed to read bundleIndex", pos |-> pos, out |-> files]
    ELSE IF ReadInt32(data, pos + 8) < 0 \/ ReadInt32(data, pos + 8) >= bundleCount
         THEN [err |-> "invalid bundleIndex", pos |-> pos, out |-> files]
    ELSE IF Len(data) - pos < 16
         THEN [err |-> "failed to read offset", pos |-> pos, out |-> files]
    ELSE IF Len(data) - pos < 20
         THEN [err |-> "failed to read size", pos |-> pos, out |-> files]
    ELSE OpenIndexFiles(data, pos + 20, n - 1, bundleCount,
             PutFile(files, [PathHash |-> SubSeq(data, pos + 1, pos + 8),
                             Path |-> <<>>,
                             BundleIndex |-> ReadInt32(data, pos + 8),
                             Offset |-> ReadInt32(data, pos + 12),
                             Size |-> ReadInt32(data, pos + 16)]))

\* the directory record loop of OpenIndex: 20 bytes a record (RecursiveSize,
\* the last 4, is read and used nowhere)
RECURSIVE OpenIndexDirectories(_, _, _, _)
OpenIndexDirectories(data, pos, n, out) ==
    IF n = 0 THEN [err |-> NoErr, pos |-> pos, out |-> out]
    ELSE IF Len(data) - pos < 20
         THEN [err |-> "failed to read directory record", pos |-> pos, out |-> out]
    ELSE OpenIndexDirectories(data, pos + 20, n - 1,
             Append(out, [PathHash |-> SubSeq(data, pos + 1, pos + 8),
                          Offset |-> ReadInt32(data, pos + 8),
                          Size |-> ReadInt32(data, pos + 12)]))

NoIdx == [opened |-> FALSE]

IndexErr(e) == [err |-> e, idx |-> NoIdx]

\* OpenIndex once the directory count has been read at ds.pos - 4
OpenIndexEnd(data, bs, fs, ds) ==
    IF ds.err # NoErr THEN IndexErr(ds.err)
    ELSE [err |-> NoErr,
          idx |-> [opened |-> TRUE, Bundles |-> bs.out, FilesByPathHash |-> fs.out,
                   Directories |-> ds.out,
                   DirectoryBundleData |-> SubSeq(data, ds.pos + 1, Len(data)),
                   hasDirData |-> TRUE, RootNode |-> RootOnly, pathsParsed |-> FALSE]]

\* OpenIndex once the file count has been read at fs.pos - 4
OpenIndexTail(data, bs, fs) ==
    IF fs.err # NoErr THEN IndexErr(fs.err)
    ELSE IF Len(data) - fs.pos < 4 THEN IndexErr("failed to read directoryCount")
    ELSE IF ReadInt32(data, fs.pos) < 0 THEN IndexErr("invalid directoryCount")
    ELSE OpenIndexEnd(data, bs, fs,
             OpenIndexDirectories(data, fs.pos + 4, ReadInt32(data, fs.pos), <<>>))

\* OpenIndex once the bundle records have been read
OpenIndexBody(data, bs) ==
    IF bs.err # NoErr THEN IndexErr(bs.err)
    ELSE IF Len(data) - bs.pos < 4 THEN IndexErr("failed to read fileCount")
    ELSE IF ReadInt32(data, bs.pos) < 0 THEN IndexErr("invalid fileCount")
    ELSE OpenIndexTail(data, bs,
             OpenIndexFiles(data, bs.pos + 4, ReadInt32(data, bs.pos), Len(bs.out),
                            <<>>))

\* OpenIndex from the content indexData of the main index bundle
OpenIndexData(data) ==
    IF Len(data) < 4 THEN IndexErr("failed to read bundleCount")
    ELSE IF ReadInt32(data, 0) < 0 THEN IndexErr("invalid bundleCount")
    ELSE OpenIndexBody(data, OpenIndexBundles(data, 4, ReadInt32(data, 0), <<>>))

\* once mainIndexBundle.ReadFull() has returned r
OpenIndexRead(r) ==
    IF r.err # NoErr THEN IndexErr("failed to read full content of main index bundle")
    ELSE OpenIndexData(r.data)

\* OpenIndex(indexPath, factory) on the index bundle file f
OpenIndex(f, oodle) ==
    IF OpenBundleFile(f, FALSE).err # NoErr
    THEN IndexErr("failed to open main index bundle")
    ELSE OpenIndexRead(ReadFull(OpenBundleFile(f, FALSE).bundle, f, oodle))

\* the one bundle file of the drive: its name without ".bundle.bin"
DataBundlePath == <<66>>

\* DriveBundleFactory.GetBundle for the bundle record at bundleIndex, on a
\* drive that holds the bundle file of DataBundlePath with content f;
\* OpenBundleFile copies the header's size into the record once it is parsed
GetBundle(ix, bundleIndex, f) ==
    IF ix.Bundles[bundleIndex + 1].Path # DataBundlePath
    THEN [err |-> "failed to open bundle file", bundle |-> NoBundle, f |-> "none",
          idx |-> ix]
    ELSE [err |-> OpenBundleFile(f, FALSE).err,
          bundle |-> OpenBundleFile(f, FALSE).bundle,
          f |-> OpenBundleFile(f, FALSE).f,
          idx |-> IF Len(f) < BundleHeaderSize THEN ix
                  ELSE [ix EXCEPT !.Bundles[bundleIndex + 1].UncompressedSize =
                                      ParseHeader(f).UncompressedSize]]

\* ReadFileData whose Close runs only after a ReadAt without error
ReadFileDataEndLeak(ix, r) ==
    [err |-> r.err, data |-> r.data, opens |-> 1, idx |-> ix,
     open |-> IF r.err = NoErr /\ Close(r.bundle).File = "nil" THEN 0 ELSE 1]

\* ReadFileData once ReadAt has returned r (or panicked) and the deferred
\* Close has run; opens counts the handles os.Open returned during the call,
\* open those that are open when the call ends
ReadFileDataEnd(ix, r) ==
    [err |-> r.err, data |-> r.data, opens |-> 1, idx |-> ix,
     open |-> IF Close(r.bundle).File = "nil" THEN 0 ELSE 1]

\* ReadFileData once GetBundleForFileRecord has returned g
ReadFileDataGot(fileRec, g, f, oodle) ==
    IF g.err # NoErr
    THEN [err |-> "could not get data bundle for file", data |-> <<>>,
          opens |-> IF g.f = "none" THEN 0 ELSE 1, idx |-> g.idx,
          open |-> IF g.f = "open" THEN 1 ELSE 0]
    ELSE ReadFileDataEnd(g.idx, ReadAt(g.bundle, f, fileRec.Offset, fileRec.Size, oodle))

\* Index.ReadFileData of the record at position i of the table (0: nil)
ReadFileData(ix, i, f, oodle) ==
    IF i = 0
    THEN [err |-> "file record is nil for ReadFileData", data |-> <<>>, opens |-> 0,
          idx |-> ix, open |-> 0]
    ELSE ReadFileDataGot(ix.FilesByPathHash[i],
                         GetBundle(ix, ix.FilesByPathHash[i].BundleIndex, f), f, oodle)

\* strings.Split(p, "/") from position i on, cur being the component begun
RECURSIVE Split(_, _, _)
Split(p, i, cur) ==
    IF i > Len(p) THEN <<cur>>
    ELSE IF p[i] = Slash THEN <<cur>> \o Split(p, i + 1, <<>>)
    ELSE Split(p, i + 1, Append(cur, p[i]))

\* a lookup that finds no child directory
FindChildDirectoryNone(nodes, cur, name) == 0

\* DirectoryNode.FindChildDirectory: the first child directory of node cur
\* with that name (0: nil)
FindChildDirectory(nodes, cur, name) ==
    LET found == {j \in 1..Len(nodes) :
                     nodes[j].parent = cur /\ nodes[j].dir /\ nodes[j].NameVal = name}
    IN  IF found = {} THEN 0 ELSE CHOOSE j \in found : \A k \in found : j <= k

RECURSIVE Descend(_, _, _, _, _)
RECURSIVE DescendInto(_, _, _, _, _, _)

\* the loop of BuildTree over pathComponents[:len-1], at component i (1-based)
Descend(nodes, cur, comps, i, currentPath) ==
    IF i >= Len(comps) THEN [nodes |-> nodes, cur |-> cur]
    ELSE DescendInto(nodes, cur, comps, i,
                     (IF i > 1 THEN Append(currentPath, Slash) ELSE currentPath)
                         \o comps[i],
                     FindChildDirectory(nodes, cur, comps[i]))

\* after childDir := currentNode.FindChildDirectory(componentName)
DescendInto(nodes, cur, comps, i, currentPath, childDir) ==
    IF childDir = 0
    THEN Descend(Append(nodes, [dir |-> TRUE, NameVal |-> comps[i],
                                PathVal |-> currentPath, parent |-> cur,
                                RecordVal |-> 0]),
                 Len(nodes) + 1, comps, i + 1, currentPath)
    ELSE Descend(nodes, childDir, comps, i + 1, currentPath)

\* the file node of record r added under the directory Descend ended in
AddFileNode(d, comps, r) ==
    Append(d.nodes, [dir |-> FALSE, NameVal |-> comps[Len(comps)], PathVal |-> <<>>,
                     parent |-> d.cur, RecordVal |-> r])

\* the loop of BuildTree over allFileRecords: order lists the positions of
\* the records in the order the map iteration produced them
RECURSIVE BuildLoop(_, _, _, _)
BuildLoop(files, order, k, nodes) ==
    IF k > Len(order) THEN nodes
    ELSE IF files[order[k]].Path = <<>> THEN BuildLoop(files, order, k + 1, nodes)
    ELSE BuildLoop(files, order, k + 1,
             AddFileNode(Descend(nodes, 1, Split(files[order[k]].Path, 1, <<>>), 1, <<>>),
                         Split(files[order[k]].Path, 1, <<>>), order[k]))

\* BuildTree(true), whatever ignoreNullPath is
BuildTreeLenient(ix, ignoreNullPath, order) ==
    [err |-> NoErr, root |-> BuildLoop(ix.FilesByPathHash, order, 1, RootOnly),
     idx |-> [ix EXCEPT !.RootNode = BuildLoop(ix.FilesByPathHash, order, 1, RootOnly)]]

\* Index.BuildTree: the error, the tree returned and the index afterwards
BuildTree(ix, ignoreNullPath, order) ==
    IF ~ix.pathsParsed /\ ~ignoreNullPath
    THEN [err |-> "ParsePaths() must be called before building the tree",
          root |-> <<>>, idx |-> ix]
    ELSE IF ~ignoreNullPath
            /\ \E i \in 1..Len(ix.FilesByPathHash) : ix.FilesByPathHash[i].Path = <<>>
         THEN [err |-> "file has no path, cannot build tree", root |-> <<>>, idx |-> ix]
    ELSE [err |-> NoErr, root |-> BuildLoop(ix.FilesByPathHash, order, 1, RootOnly),
          idx |-> [ix EXCEPT !.RootNode =
                                 BuildLoop(ix.FilesByPathHash, order, 1, RootOnly)]]

----------------------------------------------------------------------------
(* Reference algorithms the hash claims compare NameHash with.             *)

\* 0xc6a4a7935bd1e995
MurmurM == <<149, 233, 209, 91, 147, 167, 164, 198>>

MurmurR == 47

\* a length (0 <= n < 2^31) as a uint64
U64OfNat(n) ==
    <<n % 256, (n \div 256) % 256, (n \div 65536) % 256, (n \div 16777216) % 256,
      0, 0, 0, 0>>

PadTo8(bytes) == [i \in 1..8 |-> IF i <= Len(bytes) THEN bytes[i] ELSE 0]

RECURSIVE MurmurBlocks(_, _, _)
MurmurBlocks(h, data, i) ==
    IF i + 7 > Len(data) THEN h
    ELSE LET k0 == Mul64(SubSeq(data, i, i + 7), MurmurM)
             k1 == Mul64(Xor64(k0, Shr64(k0, MurmurR)), MurmurM)
         IN  MurmurBlocks(Mul64(Xor64(h, k1), MurmurM), data, i + 8)

\* canonical MurmurHash64A (64-bit MurmurHash2, Austin Appleby)
CanonicalMurmurHash64A(data, seed) ==
    LET len == Len(data)
        h0 == Xor64(seed, Mul64(U64OfNat(len), MurmurM))
        h1 == MurmurBlocks(h0, data, 1)
        tail == SubSeq(data, (len - (len % 8)) + 1, len)
        h2 == IF Len(tail) = 0 THEN h1 ELSE Mul64(Xor64(h1, PadTo8(tail)), MurmurM)
        h3 == Mul64(Xor64(h2, Shr64(h2, MurmurR)), MurmurM)
    IN  Xor64(h3, Shr64(h3, MurmurR))

RECURSIVE StdFnv1a64(_, _, _)
StdFnv1a64(h, data, i) ==
    IF i > Len(data) THEN h
    ELSE LET hash == Mul64(Xor64(h, U64OfByte(data[i])), FnvPrime64)
         IN  IF Len(hash) = 8 THEN StdFnv1a64(hash, data, i + 1) ELSE hash

StripOneSlash(p) ==
    IF Len(p) > 0 /\ p[Len(p)] = Slash THEN SubSeq(p, 1, Len(p) - 1) ELSE p

RECURSIVE Decode(_, _, _, _, _)
RECURSIVE DecodeSegment(_, _, _, _, _, _)

\* the dictionary decoder of the format description over one stream: base is
\* TRUE in state BASE and FALSE in state LEAF, out the paths emitted so far
Decode(stream, pos, base, segments, out) ==
    IF Len(stream) - pos < 4 THEN out
    ELSE IF ReadInt32(stream, pos) = 0
         THEN Decode(stream, pos + 4, ~base, IF ~base THEN <<>> ELSE segments, out)
         ELSE DecodeSegment(stream, base, segments, out, ReadInt32(stream, pos) - 1,
                            readNullTerminatedString(stream, pos + 4, <<>>))

\* after idx -= 1 and segment = read_c_string_utf8(stream)
DecodeSegment(stream, base, segments, out, i, s) ==
    IF s.err # NoErr \/ i < 0 THEN out
    ELSE IF i < Len(segments)
         THEN Decode(stream, s.pos, base, [segments EXCEPT ![i + 1] = @ \o s.seg],
                     IF base THEN out ELSE Append(out, segments[i + 1] \o s.seg))
         ELSE Decode(stream, s.pos, base,
                     IF base THEN Append(segments, s.seg) ELSE segments,
                     IF base THEN out ELSE Append(out, s.seg))

\* the decoder run over the block of every directory record that lies inside
\* the directory bundle data, each block from the given starting state
RECURSIVE DecodeAll(_, _, _, _)
DecodeAll(ix, d, base, out) ==
    IF d > Len(ix.Directories) THEN out
    ELSE LET offset == ix.Directories[d].Offset
             end == Add32(offset, ix.Directories[d].Size)
         IN  IF offset < 0 \/ end < offset \/ end > Len(ix.DirectoryBundleData)
             THEN DecodeAll(ix, d + 1, base, out)
             ELSE DecodeAll(ix, d + 1, base,
                      Decode(SubSeq(ix.DirectoryBundleData, offset + 1, end), 0, base,
                             <<>>, out))

----------------------------------------------------------------------------
(* The hash specification: NameHash applied to bounded paths under each    *)
(* selector value of directories[0].path_hash.                             *)

MaxPathLen == 3

\* 'a', 'A', '/'
Alphabet == {97, 65, Slash}

RECURSIVE SeqsUpTo(_, _)
SeqsUpTo(S, n) ==
    IF n = 0 THEN {<<>>}
    ELSE LET shorter == SeqsUpTo(S, n - 1)
         IN  shorter \cup {Append(s, x) : s \in {t \in shorter : Len(t) = n - 1}, x \in S}

\* "Art/Models/" : longer than one 8-byte block
LongPath == <<65, 114, 116, 47, 77, 111, 100, 101, 108, 115, 47>>

Paths == SeqsUpTo(Alphabet, MaxPathLen) \cup {LongPath, SubSeq(LongPath, 1, 10)}

\* a selector that is neither magic: the dummy of the tests (0x2000000000000000)
OtherMagic == <<0, 0, 0, 0, 0, 0, 0, 32>>

DirRec(magic, off, size) == [PathHash |-> magic, Offset |-> off, Size |-> size]

NoFile == <<>>

NoGen == [made |-> FALSE]

NoIo == [high |-> 0, decodes |-> 0]

HashIndexes ==
    {[Directories |-> d, DirectoryBundleData |-> <<>>, hasDirData |-> TRUE,
      FilesByPathHash |-> <<>>, pathsParsed |-> FALSE] :
        d \in {<<>>, <<DirRec(MurmurMagic, 0, 0)>>, <<DirRec(FnvMagic, 0, 0)>>,
               <<DirRec(OtherMagic, 0, 0)>>}}

HashInit ==
    /\ idx \in HashIndexes
    /\ hin \in Paths
    /\ gf = NoGGPK
    /\ ret = [op |-> "none"]
    /\ file = NoFile /\ gen = NoGen /\ b = NoBundle /\ io = NoIo

\* hash := idx.NameHash(path); then hashWithSlash := idx.NameHash(path + "/")
CallNameHash ==
    /\ ret.op = "none"
    /\ ret' = [op |-> "NameHash", path |-> hin, r |-> NameHash(idx, hin)]
    /\ UNCHANGED <<file, gen, b, io, idx, hin, gf>>

CallNameHashSlash ==
    /\ ret.op = "NameHash"
    /\ ret' = [op |-> "NameHashSlash", path |-> hin, r |-> ret.r,
               rs |-> NameHash(idx, Append(hin, Slash))]
    /\ UNCHANGED <<file, gen, b, io, idx, hin, gf>>

HashNext == CallNameHash \/ CallNameHashSlash

SpecHash == HashInit /\ [][HashNext]_vars

----------------------------------------------------------------------------
(* The bundle specification: a bundle file is written the way the tests    *)
(* write one, then opened, read and closed.                                *)

MaxChunks == 3

MaxChunkLen == 2

NoIndex == [Directories |-> <<>>, DirectoryBundleData |-> <<>>, hasDirData |-> FALSE,
            FilesByPathHash |-> <<>>, pathsParsed |-> FALSE]

RECURSIVE SumSeq(_)
SumSeq(q) == IF Len(q) = 0 THEN 0 ELSE Head(q) + SumSeq(Tail(q))

\* the payload bytes: 'A', 'B', 'C', ... (each byte of a file is distinct)
Payload(n) == [j \in 1..n |-> 64 + j]

\* the chunks of the given lengths, cut from the payload in order
ChunksOf(lens) ==
    [i \in 1..Len(lens) |->
        LET start == SumSeq(SubSeq(lens, 1, i - 1))
        IN  SubSeq(Payload(SumSeq(lens)), start + 1, start + lens[i])]

RECURSIVE Concat(_)
Concat(qs) == IF Len(qs) = 0 THEN <<>> ELSE Head(qs) \o Concat(Tail(qs))

\* header := BundleHeader{...}; binary.Write(header); binary.Write(chunkSizes);
\* buf.Write(chunk) for each chunk
WriteBundleFile(h, chunkSizes, chunks) ==
    WriteHeader(h) \o WriteInt32s(chunkSizes) \o Concat(chunks)

Gens ==
    {[made |-> TRUE, lens |-> lens, chunkSize |-> cs, compressor |-> comp,
      headSize |-> hs, count |-> cnt] :
        lens \in SeqsUpTo(0..MaxChunkLen, MaxChunks),
        cs \in 0..MaxChunkLen,
        comp \in {OodleCompressorNone, OodleCompressorLeviathan},
        hs \in {0, 47},
        cnt \in {-1, 0, 1, 2}}

\* hs = 0 stands for the right head_size, cnt = 0 for the right chunk_count;
\* at most one of the two fields is wrong, and cnt selects a corrupt count
GenOk(g) ==
    /\ (g.headSize # 0 => g.count = 0)
    /\ (g.count = -1 => Len(g.lens) # 0)

GenCount(g) ==
    LET cc == Len(g.lens)
    IN  IF g.count = 0 THEN cc
        ELSE IF g.count = -1 THEN cc - 1
        ELSE IF g.count = 1 THEN cc + 1
        ELSE MaxChunkCount + 1

GenHeader(g) ==
    [UncompressedSize |-> SumSeq(g.lens),
     CompressedSize   |-> SumSeq(g.lens),
     HeadSize         |-> IF g.headSize = 0 THEN 48 + 4 * Len(g.lens) ELSE g.headSize,
     Compressor       |-> g.compressor,
     ChunkCount       |-> GenCount(g),
     ChunkSize        |-> g.chunkSize]

GenFile(g) == WriteBundleFile(GenHeader(g), g.lens, ChunksOf(g.lens))

BundleInit ==
    /\ gen \in {g \in Gens : GenOk(g)}
    /\ file = GenFile(gen)
    /\ b = NoBundle
    /\ io = NoIo
    /\ ret = [op |-> "none"]
    /\ idx = NoIndex
    /\ hin = <<>> /\ gf = NoGGPK

\* b, err := OpenBundleFile(filePath, nil, leaveOpen)
CallOpen ==
    /\ ret.op = "none"
    /\ \E leaveOpen \in BOOLEAN :
        LET r == OpenBundleFile(file, leaveOpen)
        IN  /\ b' = r.bundle
            /\ io' = [io EXCEPT !.high = r.high]
            /\ ret' = [op |-> "Open", err |-> r.err]
    /\ UNCHANGED <<file, gen, idx, hin, gf>>

\* the decompressor is called only under a compressor other than NONE
OutcomesFor(bn) ==
    IF bn.Header.Compressor = OodleCompressorNone THEN {"ok"} ELSE OodleOutcomes

\* data, err := b.ReadFull()
CallReadFull ==
    /\ b.exists
    /\ \E oodle \in OutcomesFor(b) :
        LET r == ReadFull(b, file, oodle)
        IN  /\ b' = r.bundle
            /\ io' = [high |-> Max(io.high, r.high),
                      decodes |-> io.decodes + (IF r.reads > 0 /\ r.err = NoErr THEN 1 ELSE 0)]
            /\ ret' = [op |-> "ReadFull", err |-> r.err, data |-> r.data,
                       reads |-> r.reads, wasCached |-> b.cached]
    /\ UNCHANGED <<file, gen, idx, hin, gf>>

\* data, err := b.ReadAt(offset, size) with the arguments drawn from Offs and Sizes
DoReadAt(Offs, Sizes) ==
    /\ b.exists
    /\ \E oodle \in OutcomesFor(b), off \in Offs, size \in Sizes :
        LET r == ReadAt(b, file, off, size, oodle)
        IN  /\ b' = r.bundle
            /\ io' = [high |-> Max(io.high, r.high),
                      decodes |-> io.decodes + (IF r.reads > 0 /\ r.err = NoErr THEN 1 ELSE 0)]
            /\ ret' = [op |-> "ReadAt", err |-> r.err, data |-> r.data,
                       reads |-> r.reads, wasCached |-> b.cached,
                       off |-> off, size |-> size, full |-> r.full]
    /\ UNCHANGED <<file, gen, idx, hin, gf>>

\* in the bundle specification ReadAt reads a window at the start of the body
CallReadAt == DoReadAt({0, 1}, {1, 2})

\* b.Close()
CallClose ==
    /\ b.exists
    /\ b' = Close(b)
    /\ ret' = [op |-> "Close", err |-> NoErr]
    /\ UNCHANGED <<file, gen, io, idx, hin, gf>>

BundleNext == CallOpen \/ CallReadFull \/ CallReadAt \/ CallClose

SpecBundle == BundleInit /\ [][BundleNext]_vars

----------------------------------------------------------------------------
(* The window-read specification: a bundle with a consistent header has    *)
(* been opened; ReadAt is called with offsets and sizes around the bounds  *)
(* of the body.                                                            *)

ReadAtInit ==
    /\ gen \in {g \in Gens : g.headSize = 0 /\ g.count = 0}
    /\ file = GenFile(gen)
    /\ b = OpenBundleFile(file, FALSE).bundle
    /\ io = [NoIo EXCEPT !.high = OpenBundleFile(file, FALSE).high]
    /\ ret = [op |-> "Open", err |-> NoErr]
    /\ idx = NoIndex
    /\ hin = <<>> /\ gf = NoGGPK

\* offsets and sizes from just below 0 to just above uncompressed_size, and
\* the largest int32
WindowArgs == -1..(b.Header.UncompressedSize + 1) \cup {MaxInt32}

\* a window read follows an open, a ReadFull or a Close (window reads that
\* follow one another are in SpecBundle)
ReadAtWindow == ret.op # "ReadAt" /\ DoReadAt(WindowArgs, WindowArgs)

ReadAtNext == ReadAtWindow \/ CallReadFull \/ CallClose

SpecReadAt == ReadAtInit /\ [][ReadAtNext]_vars

----------------------------------------------------------------------------
(* The index specification: an Index as OpenIndex (or a test) builds it,   *)
(* under each selector, then ParsePaths, GetFileByPath and NameHash.       *)

\* a path-part index alone, and one followed by its null-terminated segment
EncIdx(n) == LE32(n)

EncSeg(n, seg) == LE32(n) \o seg \o <<0>>

\* "a/b", "c", "a/", "x", ""
PathAB == <<97, Slash, 98>>

PathC == <<99>>

IndexPaths == {PathAB, PathC, <<97, Slash>>, <<120>>, <<>>}

\* base "a/", then files "a/" + "b" and "c"
DirDataAB ==
    EncIdx(0) \o EncSeg(1, <<97, Slash>>) \o EncIdx(0) \o EncSeg(1, <<98>>)
        \o EncSeg(2, PathC)

\* a base segment only: no path is produced
DirDataBase == EncIdx(0) \o EncSeg(1, <<97, Slash>>)

\* a file entry whose path-part index is negative once decremented
DirDataNeg == EncSeg(-1, PathC)

\* two rounds of base and file entries: the second base phase starts from an
\* empty segment list
DirDataTwice == DirDataAB \o DirDataAB

DirDatas ==
    {<<>>, DirDataAB, SubSeq(DirDataAB, 1, Len(DirDataAB) - 1), DirDataBase, DirDataNeg,
     DirDataTwice}

\* the hash a writer of the index stores for path under selector magic
StoredHash(magic, path) ==
    IF magic = MurmurMagic THEN murmurHash64A(ToLower(path), MurmurSeed)
    ELSE fnv1a64Hash(path)

FileRec(hash, bundleIndex, offset, size) ==
    [PathHash |-> hash, Path |-> <<>>, BundleIndex |-> bundleIndex,
     Offset |-> offset, Size |-> size]

FilesOf(magic) ==
    {<<>>, <<FileRec(StoredHash(magic, PathAB), 0, 0, 2),
             FileRec(StoredHash(magic, PathC), 0, 2, 1)>>}

Selectors == {MurmurMagic, FnvMagic, OtherMagic}

\* no record; one record over the whole data; a record that is skipped and
\* one over the whole data; a record whose offset + size wraps
DirectoriesOf(magic, n) ==
    {<<>>, <<DirRec(magic, 0, n)>>, <<DirRec(magic, -1, n), DirRec(magic, 0, n)>>,
     <<DirRec(magic, 1, MaxInt32)>>}

\* the indexes over data whose records were written under selector magic; an
\* Index built without directory bundle data has DirectoryBundleData = nil
IndexesOf(magic, data) ==
    {[Directories |-> d, DirectoryBundleData |-> data, hasDirData |-> h,
      FilesByPathHash |-> f, pathsParsed |-> FALSE] :
        d \in DirectoriesOf(magic, Len(data)),
        h \in (IF data = <<>> THEN BOOLEAN ELSE {TRUE}),
        f \in FilesOf(magic)}

Indexes == UNION {IndexesOf(m, data) : m \in Selectors, data \in DirDatas}

IndexInit ==
    /\ idx \in Indexes
    /\ ret = [op |-> "none"]
    /\ hin = <<>> /\ gf = NoGGPK
    /\ file = NoFile /\ gen = NoGen /\ b = NoBundle /\ io = NoIo

CallParsePaths ==
    LET r == ParsePaths(idx)
    IN  /\ idx' = r.idx
        /\ ret' = [op |-> "ParsePaths", err |-> r.err, failed |-> r.failed,
                   paths |-> r.paths, before |-> idx, again |-> ret.op = "ParsePaths"]
        /\ UNCHANGED <<file, gen, b, io, hin, gf>>

\* "file not found" is returned only when the linear scan meets no record
CallGetFileByPath ==
    \E path \in IndexPaths, scan \in 0..Len(idx.FilesByPathHash) :
        LET r == GetFileByPath(idx, path, scan)
        IN  /\ r.err = "file not found by path"
                => ScanMatches(r.idx.FilesByPathHash, path) = {}
            /\ idx' = r.idx
            /\ ret' = [op |-> "GetFileByPath", path |-> path, err |-> r.err,
                       rec |-> r.rec]
            /\ UNCHANGED <<file, gen, b, io, hin, gf>>

CallIndexNameHash ==
    \E path \in IndexPaths :
        /\ ret' = [op |-> "NameHash", path |-> path, r |-> NameHash(idx, path)]
        /\ UNCHANGED <<file, gen, b, io, idx, hin, gf>>

IndexNext == CallParsePaths \/ CallGetFileByPath \/ CallIndexNameHash

SpecIndex == IndexInit /\ [][IndexNext]_vars

----------------------------------------------------------------------------
(* The files specification: an index bundle file is written the way the    *)
(* tests write one and opened with OpenIndex; then ParsePaths,             *)
(* GetFileByPath, ReadFileData and BuildTree are called on the Index.      *)

PathAAB == <<97, Slash, 97, Slash, 98>>

\* bases "a/" and "a/a/", then the files "a/" + "b", "a/a/" + "b" and "c"
TreeData ==
    EncIdx(0) \o EncSeg(1, <<97, Slash>>) \o EncSeg(2, <<97, Slash, 97, Slash>>)
        \o EncIdx(0) \o EncSeg(1, <<98>>) \o EncSeg(2, <<98>>) \o EncSeg(3, PathC)

\* the file record a writer stores for path: bundle index, offset, size
ManifestFile(path, bundleIndex, offset, size) ==
    FileRec(StoredHash(FnvMagic, path), bundleIndex, offset, size)

FileAB == ManifestFile(PathAB, 0, 0, 2)

\* bundle records "B" (on the drive) and "C" (no such file on the drive)
TwoBundles ==
    <<[Path |-> DataBundlePath, UncompressedSize |-> 1000],
      [Path |-> <<67>>, UncompressedSize |-> 2000]>>

\* what createMockIndexBundleContent is given: bundle records, file records,
\* directory records, directory bundle data; cut bytes are missing at the end
Manifests ==
    {[made |-> TRUE, bundles |-> TwoBundles, files |-> fs, withDir |-> TRUE, cut |-> 0] :
        fs \in {<<FileAB, ManifestFile(PathAAB, 0, 2, 1), ManifestFile(PathC, 1, 0, 1)>>,
                <<FileAB, ManifestFile(PathAAB, 0, 2, 1), ManifestFile(<<120>>, 0, 2, 5)>>,
                <<FileAB, ManifestFile(PathAB, 0, 1, 1), ManifestFile(PathC, 1, 0, 1)>>,
                <<FileAB, ManifestFile(PathC, 2, 0, 1)>>}}
    \cup {[made |-> TRUE, bundles |-> SubSeq(TwoBundles, 1, 1), files |-> <<FileAB>>,
           withDir |-> FALSE, cut |-> c] : c \in {0, 1}}

RECURSIVE WriteBundleRecords(_)
WriteBundleRecords(bs) ==
    IF Len(bs) = 0 THEN <<>>
    ELSE LE32(Len(Head(bs).Path)) \o Head(bs).Path \o LE32(Head(bs).UncompressedSize)
         \o WriteBundleRecords(Tail(bs))

RECURSIVE WriteFileRecords(_)
WriteFileRecords(fs) ==
    IF Len(fs) = 0 THEN <<>>
    ELSE Head(fs).PathHash \o LE32(Head(fs).BundleIndex) \o LE32(Head(fs).Offset)
         \o LE32(Head(fs).Size) \o WriteFileRecords(Tail(fs))

\* createMockIndexBundleContent: the counts, the records and the directory
\* bundle data (one directory record over the whole of TreeData, or none)
WriteIndexContent(m) ==
    LET all == LE32(Len(m.bundles)) \o WriteBundleRecords(m.bundles)
               \o LE32(Len(m.files)) \o WriteFileRecords(m.files)
               \o (IF m.withDir
                   THEN LE32(1) \o FnvMagic \o LE32(0) \o LE32(Len(TreeData))
                        \o LE32(Len(TreeData)) \o TreeData
                   ELSE LE32(0))
    IN  SubSeq(all, 1, Len(all) - m.cut)

IndexChunkSize == 262144

\* the uncompressed one-chunk bundle of TestOpenIndex_Structure around content
WrapInBundle(content) ==
    WriteBundleFile([UncompressedSize |-> Len(content), CompressedSize |-> Len(content),
                     HeadSize |-> 48, Compressor |-> OodleCompressorNone,
                     ChunkCount |-> 1, ChunkSize |-> IndexChunkSize],
                    <<Len(content)>>, <<content>>)

\* the data bundle "B" on the drive: three bytes of content, or a file that
\* ends inside the header
DataFiles == {WrapInBundle(Payload(3)), SubSeq(WrapInBundle(Payload(3)), 1, 30)}

FilesInit ==
    /\ gen \in Manifests
    /\ file \in DataFiles
    /\ idx = OpenIndex(WrapInBundle(WriteIndexContent(gen)), "ok").idx
    /\ ret = [op |-> "OpenIndex",
              err |-> OpenIndex(WrapInBundle(WriteIndexContent(gen)), "ok").err]
    /\ b = NoBundle /\ io = NoIo /\ hin = <<>> /\ gf = NoGGPK

\* data, err := idx.ReadFileData(fileRec)
CallReadFileData ==
    /\ idx.opened
    /\ \E i \in 0..Len(idx.FilesByPathHash) :
        LET r == ReadFileData(idx, i, file, "ok")
        IN  /\ idx' = r.idx
            /\ ret' = [op |-> "ReadFileData", rec |-> i, err |-> r.err, data |-> r.data,
                       opens |-> r.opens, open |-> r.open]
            /\ UNCHANGED <<file, gen, b, io, hin, gf>>

\* the orders in which a map iteration can produce n records
Orders(n) == {o \in [1..n -> 1..n] : \A i, j \in 1..n : o[i] = o[j] => i = j}

\* root, err := idx.BuildTree(ignoreNullPath)
CallBuildTree ==
    /\ idx.opened
    /\ \E ignoreNullPath \in BOOLEAN, order \in Orders(Len(idx.FilesByPathHash)) :
        LET r == BuildTree(idx, ignoreNullPath, order)
        IN  /\ idx' = r.idx
            /\ ret' = [op |-> "BuildTree", ignoreNullPath |-> ignoreNullPath,
                       err |-> r.err, root |-> r.root]
            /\ UNCHANGED <<file, gen, b, io, hin, gf>>

\* the calls of the index specification, on an Index that OpenIndex returned
FilesParsePaths == idx.opened /\ CallParsePaths

FilesGetFileByPath == idx.opened /\ CallGetFileByPath

FilesNext ==
    FilesParsePaths \/ FilesGetFileByPath \/ CallReadFileData \/ CallBuildTree

SpecFiles == FilesInit /\ [][FilesNext]_vars


----------------------------------------------------------------------------
(* Claims about the bundle codec (checked under SpecBundle, SpecReadAt).   *)

\* the header written describes the chunks: chunk_count chunks, head_size,
\* compressed sizes equal to the chunk lengths, compressor NONE
Described ==
    /\ gen.made /\ gen.headSize = 0 /\ gen.count = 0
    /\ gen.compressor = OodleCompressorNone

\* every chunk but the last has the header's chunk_size
Tiled == \A i \in 1..(Len(gen.lens) - 1) : gen.lens[i] = gen.chunkSize

FirstReadFull == ret.op = "ReadFull" /\ ~ret.wasCached /\ b.File = "open"

\* C1 as stated: for every sequence of chunks in a NONE bundle whose header
\* describes them, OpenBundleFile then ReadFull returns their concatenation
\* (the header's chunk_size being the length of the first chunk).
C1_Original ==
    (FirstReadFull /\ Described /\ (Len(gen.lens) > 0 => gen.chunkSize = gen.lens[1]))
        => (ret.err = NoErr /\ ret.data = Concat(ChunksOf(gen.lens)))

\* C1 (amended): for every sequence of chunks of which all but the last have
\* the header's chunk_size, stored in a NONE bundle whose header describes
\* them, OpenBundleFile then ReadFull returns their concatenation in order.
C1_RoundTrip ==
    (FirstReadFull /\ Described /\ Tiled)
        => (ret.err = NoErr /\ ret.data = Concat(ChunksOf(gen.lens)))

C1_Witness ==
    /\ FirstReadFull /\ Described /\ Tiled
    /\ gen.lens = <<2, 2, 1>>
    /\ ret.err = NoErr /\ ret.data = <<65, 66, 67, 68, 69>>

\* C2: opening a bundle whose header has head_size # 48 + chunk_count*4
\* fails with an invalid-header-field error and returns no Bundle.
C2_HeadSize ==
    (ret.op = "Open"
        /\ ParseHeader(file).HeadSize # 48 + 4 * ParseHeader(file).ChunkCount)
        => (ret.err # NoErr /\ ~b.exists)

\* C3: a well-formed bundle file whose chunk_count field is changed to another
\* value is rejected with an invalid-header-field error, and no byte at or
\* after the original offset 60 + 4*chunk_count has been read by then.
C3_ChunkCount ==
    (ret.op = "Open" /\ gen.count # 0)
        => (/\ ret.err \in {"invalid chunk count", "unreasonable chunk count"}
            /\ io.high <= BundleHeaderSize + 4 * Len(gen.lens))

InWindow ==
    /\ ret.op = "ReadAt" /\ b.File = "open"
    /\ ret.off >= 0 /\ ret.size > 0
    /\ ret.off <= b.Header.UncompressedSize
    /\ ret.size <= b.Header.UncompressedSize - ret.off

\* C4: on an open bundle, for offset >= 0, size > 0, offset + size <=
\* uncompressed_size, ReadAt succeeds exactly when its ReadFull succeeds and
\* returns ReadFull()[offset .. offset+size); for a NONE bundle these are the
\* bytes of the chunks at those positions, also across a chunk boundary.
C4_ReadAt ==
    InWindow
        => (/\ ret.full.called
            /\ (ret.err = NoErr) = (ret.full.err = NoErr)
            /\ (ret.err = NoErr =>
                    /\ ret.data = SubSeq(ret.full.data, ret.off + 1, ret.off + ret.size)
                    /\ Len(ret.data) = ret.size
                    /\ (gen.compressor = OodleCompressorNone =>
                            ret.data = SubSeq(Concat(ChunksOf(gen.lens)),
                                              ret.off + 1, ret.off + ret.size)))
            /\ (ret.err # NoErr => ret.data = <<>>))

C4_Witness ==
    /\ InWindow /\ gen.lens = <<2, 2>> /\ gen.compressor = OodleCompressorNone
    /\ ret.off = 1 /\ ret.size = 2
    /\ ret.err = NoErr /\ ret.data = <<66, 67>>

\* C5: ReadAt returns an out-of-bounds error and no data whenever offset < 0
\* or offset + size > uncompressed_size, for every size >= 0.
C5_OutOfBounds ==
    (/\ ret.op = "ReadAt" /\ b.File = "open" /\ ret.size >= 0
     /\ (ret.off < 0 \/ ret.size > b.Header.UncompressedSize - ret.off))
        => (ret.err = "read offset/size out of bounds" /\ ret.data = <<>>)

\* C6: once a ReadFull has decoded the body, no later ReadFull or ReadAt on
\* the instance reads a chunk payload or decodes again (the body is decoded
\* at most once), and every later successful ReadFull returns that content:
\* the cached content stays the one decoding of the file.
C6_Memoized ==
    /\ io.decodes <= 1
    /\ (ret.op \in {"ReadFull", "ReadAt"} /\ ret.wasCached) => ret.reads = 0
    /\ (ret.op = "ReadFull" /\ ret.err = NoErr /\ b.cached)
            => ret.data = b.cachedContent
    /\ (b.exists /\ b.cached)
            => (/\ io.decodes = 1
                /\ b.cachedContent =
                       ReadFullNoCache([b EXCEPT !.File = "open"], file, "ok").data
                /\ Len(b.cachedContent) = b.Header.UncompressedSize)

C6_Witness ==
    /\ ret.op = "ReadFull" /\ ret.wasCached /\ ret.err = NoErr
    /\ gen.compressor = OodleCompressorLeviathan
    /\ io.decodes = 1 /\ Len(ret.data) = 2 * MaxChunkLen

----------------------------------------------------------------------------
(* Claims about path hashing (checked under SpecHash).                     *)

Selector == IF Len(idx.Directories) = 0 THEN <<>> ELSE idx.Directories[1].PathHash

KnownSelector == Selector \in {MurmurMagic, FnvMagic}

EndsInSlash(p) == Len(p) > 0 /\ p[Len(p)] = Slash

\* C7 as stated: for every non-empty path p, also one that ends in '/', and
\* both hash algorithms, NameHash(p) = NameHash(p + "/").
C7_Original ==
    (ret.op = "NameHashSlash" /\ KnownSelector /\ Len(hin) > 0)
        => (ret.r.err = NoErr /\ ret.rs.err = NoErr /\ ret.rs.hash = ret.r.hash)

\* C7 (amended): for every non-empty path p that does not end in '/', and
\* both hash algorithms, NameHash(p) succeeds and equals NameHash(p + "/").
C7_TrailingSlash ==
    (ret.op = "NameHashSlash" /\ KnownSelector /\ Len(hin) > 0 /\ ~EndsInSlash(hin))
        => (ret.r.err = NoErr /\ ret.rs.err = NoErr /\ ret.rs.hash = ret.r.hash)

C7_Witness ==
    /\ ret.op = "NameHashSlash" /\ Selector = MurmurMagic
    /\ Len(hin) = MaxPathLen /\ ~EndsInSlash(hin) /\ Slash \in {hin[i] : i \in 1..Len(hin)}
    /\ ret.rs.err = NoErr /\ ret.rs.hash = ret.r.hash

\* C8: under the selector 0xF42A94E69CFF42FE, NameHash(path) is the canonical
\* MurmurHash64A (seed 0x1337B33F) of the lowercased path without its
\* trailing slash, for every path.
C8_Murmur ==
    (ret.op = "NameHash" /\ Selector = MurmurMagic)
        => (ret.r.err = NoErr
            /\ ret.r.hash = CanonicalMurmurHash64A(ToLower(StripOneSlash(hin)), MurmurSeed))

\* C9: under the selector 0x07E47507B4A92E53, NameHash(path) is standard
\* FNV-1a-64 over: path with exactly one trailing '/' removed if present,
\* A-Z lowercased, followed by "++".
C9_Fnv ==
    (ret.op = "NameHash" /\ Selector = FnvMagic)
        => (ret.r.err = NoErr
            /\ ret.r.hash = StdFnv1a64(FnvOffset64,
                                       ToLower(StripOneSlash(hin)) \o <<Plus, Plus>>, 1))

----------------------------------------------------------------------------
(* Claims about the index (checked under SpecIndex).                       *)

NoSelector == ~KnownSelector

\* C10: when directories[0].path_hash is neither magic, or no directory
\* record is loaded, NameHash fails for every path and GetFileByPath never
\* returns a record.
C10_NoSelector ==
    NoSelector
        => (/\ \A p \in IndexPaths : NameHash(idx, p).err # NoErr
            /\ ret.op = "NameHash" => ret.r.err # NoErr
            /\ ret.op = "GetFileByPath" => (ret.err # NoErr /\ ~ret.rec.found))

C10_Witness ==
    /\ NoSelector /\ Len(idx.Directories) > 0 /\ Len(idx.FilesByPathHash) > 0
    /\ idx.pathsParsed
    /\ ret.op = "GetFileByPath" /\ ret.path = PathAB
    /\ ret.err = "could not calculate hash for path"

\* a call that came back to its caller: Go unwinds a panic past the call
Returned == ~IsPanic(ret.err)

\* C11: ParsePaths is idempotent: once a ParsePaths call has returned, the
\* ParsePaths call that follows it reports 0 failed paths and leaves the
\* index (every file record's Path, the rest of the tables, the parsed
\* flag) as it was.
C11_Idempotent ==
    [][(ret.op = "ParsePaths" /\ Returned /\ ret'.op = "ParsePaths" /\ ret'.again)
          => (ret'.failed = 0 /\ idx' = idx /\ ret'.before = idx)]_vars

C11_Witness ==
    /\ ret.op = "ParsePaths" /\ ret.again /\ ret.err = NoErr /\ ret.failed = 0
    /\ ret.before = idx /\ idx.pathsParsed
    /\ \E i \in 1..Len(idx.FilesByPathHash) : idx.FilesByPathHash[i].Path = PathAB

\* C12: IsPathParsed() is true only if a ParsePaths call on the index has
\* returned a nil error: the call that turns the flag on returns nil.
C12_ParsedOnlyOnSuccess ==
    (ret.op = "ParsePaths" /\ ~ret.before.pathsParsed /\ idx.pathsParsed)
        => ret.err = NoErr

\* the block stops inside a command: fewer than 4 bytes are left for a path
\* part index, or the segment after an index has no terminating NUL
RECURSIVE EndsMidCommand(_, _)
EndsMidCommand(block, pos) ==
    IF pos >= Len(block) THEN FALSE
    ELSE IF Len(block) - pos < 4 THEN TRUE
    ELSE IF ReadInt32(block, pos) = 0 THEN EndsMidCommand(block, pos + 4)
    ELSE LET s == readNullTerminatedString(block, pos + 4, <<>>)
         IN  IF s.err # NoErr THEN TRUE ELSE EndsMidCommand(block, s.pos)

\* some directory record lies outside the directory bundle data, or its
\* block stops inside a command
StructuralFault(ix) ==
    \E d \in 1..Len(ix.Directories) :
        LET offset == ix.Directories[d].Offset
            end == Add32(offset, ix.Directories[d].Size)
        IN  \/ offset < 0 \/ end < offset \/ end > Len(ix.DirectoryBundleData)
            \/ EndsMidCommand(SubSeq(ix.DirectoryBundleData, offset + 1, end), 0)

\* C13: ParsePaths aborts with an error on structural faults and only on
\* those: a call that decodes the dictionary under a known selector returns
\* a non-nil error when a directory block ends inside a command or a
\* directory record lies outside the directory bundle data, and a returned
\* error comes from such a fault (an unmatched candidate path only counts in
\* failedCount).
C13_StructuralFaults ==
    (/\ ret.op = "ParsePaths" /\ ~ret.before.pathsParsed
     /\ ret.before.hasDirData /\ Len(ret.before.Directories) > 0 /\ KnownSelector)
        => (/\ StructuralFault(ret.before) => ret.err # NoErr
            /\ (ret.err # NoErr /\ Returned) => StructuralFault(ret.before))

\* a ParsePaths call that decoded the dictionary and returned nil
Decoded ==
    /\ ret.op = "ParsePaths" /\ ~ret.before.pathsParsed /\ ret.err = NoErr

\* C14 as stated: the candidate paths of ParsePaths, in order, are those of
\* the described decoder started in state BASE.
C14_Original == Decoded => ret.paths = DecodeAll(ret.before, 1, TRUE, <<>>)

\* C14: the candidate paths of ParsePaths, in order, are those of the
\* described decoder started in state LEAF on each directory block: it
\* toggles BASE/LEAF on each index 0, clears the segments on entering BASE,
\* pushes in BASE when idx-1 >= |segments|, and in LEAF emits
\* segments[idx-1] ++ segment, or the bare segment.
C14_StartsInLeaf == Decoded => ret.paths = DecodeAll(ret.before, 1, FALSE, <<>>)

C14_Witness ==
    /\ Decoded /\ ret.paths = <<PathAB, PathC, PathAB, PathC>>
    /\ ret.paths = DecodeAll(ret.before, 1, FALSE, <<>>)
    /\ ret.paths # DecodeAll(ret.before, 1, TRUE, <<>>)

\* the records of the table
Records(files) == {files[i] : i \in 1..Len(files)}

----------------------------------------------------------------------------
(* Claims about the opened index, file reads and the tree (checked under   *)
(* SpecFiles).                                                             *)

\* C16: once ParsePaths has completed, no call of GetFileByPath,
\* ReadFileData or BuildTree changes FilesByPathHash: its key set and every
\* field of every record (PathHash, BundleRecord, Offset, Size, Path) stay
\* as they are.
C16_Frame == [][idx.pathsParsed => idx'.FilesByPathHash = idx.FilesByPathHash]_vars

\* C17: a ReadFileData call opens at most one data bundle file, and no
\* handle it opened is open when the call ends, whether it returns data or
\* an error.
C17_OneBundleClosed == ret.op = "ReadFileData" => (ret.opens <= 1 /\ ret.open = 0)

C17_Witness ==
    /\ ret.op = "ReadFileData" /\ ret.opens = 1 /\ ret.open = 0
    /\ ret.err = "read offset/size out of bounds"

\* C18: after OpenIndex succeeds, the Index holds as many bundle records as
\* the manifest declares, in the declared order, as many entries in
\* FilesByPathHash as it declares file records, and as many directory
\* records as it declares.
C18_Counts ==
    (ret.op = "OpenIndex" /\ ret.err = NoErr)
        => (/\ Len(idx.Bundles) = Len(gen.bundles)
            /\ \A i \in 1..Len(gen.bundles) : idx.Bundles[i].Path = gen.bundles[i].Path
            /\ Len(idx.FilesByPathHash) = Len(gen.files)
            /\ Len(idx.Directories) = (IF gen.withDir THEN 1 ELSE 0))

\* the path a node stands for: the names from the root down, joined by '/'
RECURSIVE PathOf(_, _)
PathOf(nodes, n) ==
    IF nodes[n].parent = 0 THEN <<>>
    ELSE IF nodes[nodes[n].parent].parent = 0 THEN nodes[n].NameVal
    ELSE PathOf(nodes, nodes[n].parent) \o <<Slash>> \o nodes[n].NameVal

\* the file nodes of a tree that point to the record at position i
FileNodes(nodes, i) == {n \in 1..Len(nodes) : ~nodes[n].dir /\ nodes[n].RecordVal = i}

\* the positions of the records that have a path
WithPath(files) == {i \in 1..Len(files) : files[i].Path # <<>>}

\* a BuildTree call that returned a tree
Built == ret.op = "BuildTree" /\ ret.err = NoErr

\* C19: in the tree BuildTree returns no directory node has two child
\* directories of the same name, and every file record with a non-empty
\* Path has exactly one file node, which lies under the chain of directories
\* its Path names.
C19_Tree ==
    Built
        => (/\ \A m, n \in 1..Len(ret.root) :
                  (/\ ret.root[m].dir /\ ret.root[n].dir
                   /\ ret.root[m].parent = ret.root[n].parent
                   /\ ret.root[m].NameVal = ret.root[n].NameVal) => m = n
            /\ \A i \in WithPath(idx.FilesByPathHash) :
                  /\ Cardinality(FileNodes(ret.root, i)) = 1
                  /\ \A n \in FileNodes(ret.root, i) :
                        /\ PathOf(ret.root, n) = idx.FilesByPathHash[i].Path
                        /\ ret.root[ret.root[n].parent].dir)

C19_Witness ==
    /\ Built
    /\ Cardinality(WithPath(idx.FilesByPathHash)) = 3
    /\ \E n \in 1..Len(ret.root) : ~ret.root[n].dir /\ PathOf(ret.root, n) = PathAAB
    /\ \E n \in 1..Len(ret.root) : ~ret.root[n].dir /\ PathOf(ret.root, n) = PathAB
    /\ Cardinality({n \in 1..Len(ret.root) : ret.root[n].dir}) = 3

\* some file record has no derived path
SomeNullPath == \E i \in 1..Len(idx.FilesByPathHash) : idx.FilesByPathHash[i].Path = <<>>

\* C20: when some file record has no derived path, BuildTree(false) returns
\* an error, and BuildTree(true) returns a tree whose file nodes are exactly
\* the records that have a path, one node each.
C20_NullPath ==
    (ret.op = "BuildTree" /\ SomeNullPath)
        => IF ~ret.ignoreNullPath THEN ret.err # NoErr /\ ret.root = <<>>
           ELSE /\ ret.err = NoErr
                /\ \A n \in 1..Len(ret.root) :
                      ~ret.root[n].dir => ret.root[n].RecordVal \in WithPath(idx.FilesByPathHash)
                /\ \A i \in WithPath(idx.FilesByPathHash) :
                      Cardinality(FileNodes(ret.root, i)) = 1

C20_Witness ==
    /\ ret.op = "BuildTree" /\ SomeNullPath /\ ret.ignoreNullPath /\ ret.err = NoErr
    /\ idx.pathsParsed
    /\ Cardinality(WithPath(idx.FilesByPathHash)) = 2
    /\ Cardinality({n \in 1..Len(ret.root) : ~ret.root[n].dir}) = 2

----------------------------------------------------------------------------
(* Claims about arithmetic at the int32 boundary and out-of-range access.  *)

\* C23: ReadAt does not panic for any int32 offset and size: when offset +
\* size wraps in 32 bits, ReadAt still returns the out-of-bounds error.
C23_NoPanic ==
    (ret.op = "ReadAt" /\ b.File = "open" /\ ret.off >= 0 /\ ret.size > 0
     /\ ret.size > MaxInt32 - ret.off)
        => (ret.err = "read offset/size out of bounds" /\ ~IsPanic(ret.err))

\* C24: ParsePaths never performs an out-of-range access: every directory
\* record's slice lies within the directory bundle data (negative size and
\* 32-bit overflow of offset + size included) and the segment list is indexed
\* only within its length (negative command indices included), so no call of
\* ParsePaths ends in a run-time panic.
C24_NoOutOfRange ==
    ret.op = "ParsePaths" => ~IsPanic(ret.err)

----------------------------------------------------------------------------
(* Claims about the chunk loop of ReadFull, its cache and Close (checked   *)
(* under SpecBundle).                                                      *)

\* C25: ReadFull rejects a bundle whose last chunk's uncompressed target,
\* uncompressed_size - chunk_size * (chunk_count - 1), is not positive while
\* chunk_count > 0 and uncompressed_size > 0, a last chunk of target 0 with
\* compressed size 0 included.
C25_LastChunkPositive ==
    (/\ ret.op = "ReadFull" /\ b.exists /\ b.File = "open"
     /\ b.Header.ChunkCount > 0 /\ b.Header.UncompressedSize > 0
     /\ GetLastChunkUncompressedSize(b.Header) <= 0)
        => ret.err # NoErr

----------------------------------------------------------------------------
(* The chunk ranges specification: the chunk loop of ReadFull followed on  *)
(* the sizes alone (header fields, compressed sizes, file length), so that *)
(* header values up to the largest int32 can be run without a buffer of    *)
(* that many bytes. It records every output range the loop slices.         *)

RangesRet(e, outOff, slices) == [err |-> e, off |-> outOff, slices |-> slices]

RECURSIVE RangesLoop(_, _, _, _, _, _, _)

\* decompressedData[outputBufferOffset : outputBufferOffset+target] and the
\* copy into it, for a chunk that passed the check against the buffer length
RangesSlice(bn, n, oodle, i, nextOff, outOff, slices, csize, end) ==
    IF end < outOff THEN RangesRet("panic: slice bounds out of range", outOff, slices)
    ELSE IF bn.Header.Compressor = OodleCompressorNone
         THEN IF csize # end - outOff
              THEN RangesRet("mismatch in chunk size for OodleCompressorNone", outOff, slices)
              ELSE RangesLoop(bn, n, oodle, i + 1, nextOff, end, slices)
         ELSE IF oodle = "error"
              THEN RangesRet("failed to decompress Oodle chunk", outOff, slices)
              ELSE IF oodle = "short"
                   THEN RangesRet("Oodle decompression wrote another size", outOff, slices)
                   ELSE RangesLoop(bn, n, oodle, i + 1, nextOff, end, slices)

\* one loop iteration for chunk i of a file of n bytes
RangesChunk(bn, n, oodle, i, fileOff, outOff, slices, csize, target) ==
    IF csize < 0
    THEN RangesRet("invalid negative compressed chunk size", outOff, slices)
    ELSE IF target < 0
    THEN RangesRet("negative uncompressed target size", outOff, slices)
    ELSE IF target = 0 /\ csize # 0
    THEN RangesRet("uncompressed target size is 0 but compressed chunk size is not",
                   outOff, slices)
    ELSE IF target = 0 /\ csize = 0
    THEN RangesLoop(bn, n, oodle, i + 1, fileOff, outOff, slices)
    ELSE IF csize = 0
    THEN RangesRet("compressed chunk size is 0 but uncompressed target size is not",
                   outOff, slices)
    ELSE IF csize > n - fileOff
    THEN RangesRet("failed to read compressed chunk", outOff, slices)
    ELSE IF Add32(outOff, target) > bn.Header.UncompressedSize
    THEN RangesRet("output buffer too small", outOff, slices)
    ELSE RangesSlice(bn, n, oodle, i, fileOff + csize, outOff,
                     Append(slices, [i |-> i, off |-> outOff, target |-> target]),
                     csize, Add32(outOff, target))

RangesLoop(bn, n, oodle, i, fileOff, outOff, slices) ==
    IF i >= bn.Header.ChunkCount
    THEN RangesRet(NoErr, outOff, slices)
    ELSE RangesChunk(bn, n, oodle, i, fileOff, outOff, slices,
                     bn.CompressedChunkSizes[i + 1],
                     IF i = bn.Header.ChunkCount - 1
                     THEN GetLastChunkUncompressedSize(bn.Header)
                     ELSE bn.Header.ChunkSize)

\* the run of ReadFull on an open bundle without cached content
ChunkRanges(bn, n, oodle) ==
    IF bn.Header.UncompressedSize = 0 THEN RangesRet(NoErr, 0, <<>>)
    ELSE IF bn.Header.UncompressedSize < 0
         THEN RangesRet("negative uncompressed size", 0, <<>>)
    ELSE IF bn.Header.ChunkCount = 0
         THEN RangesRet("uncompressed size > 0 but 0 chunks", 0, <<>>)
    ELSE RangesLoop(bn, n, oodle, 0, BundleHeaderSize + bn.Header.ChunkCount * 4, 0, <<>>)

\* a size above half of the int32 range: two of them wrap when added
BigSize == MaxInt32 \div 2 + 2

\* headers with sizes around 0 and around the int32 boundary; every chunk of
\* the file holds 0..2 compressed bytes
RangeGens ==
    {[made |-> TRUE, lens |-> lens, chunkSize |-> cs, compressor |-> comp, size |-> us] :
        lens \in SeqsUpTo(0..MaxChunkLen, MaxChunks) \ {<<>>},
        cs \in {-1, 0, 1, 2, BigSize, MaxInt32},
        comp \in {OodleCompressorNone, OodleCompressorLeviathan},
        us \in {0, 1, 2, 3, 4, BigSize, MaxInt32}}

RangeHeader(g) ==
    [UncompressedSize |-> g.size,
     CompressedSize   |-> SumSeq(g.lens),
     HeadSize         |-> 48 + 4 * Len(g.lens),
     Compressor       |-> g.compressor,
     ChunkCount       |-> Len(g.lens),
     ChunkSize        |-> g.chunkSize]

RangesInit ==
    /\ gen \in RangeGens
    /\ file = WriteBundleFile(RangeHeader(gen), gen.lens, ChunksOf(gen.lens))
    /\ b = OpenBundleFile(file, FALSE).bundle
    /\ io = NoIo
    /\ ret = [op |-> "Open", err |-> NoErr]
    /\ idx = NoIndex
    /\ hin = <<>> /\ gf = NoGGPK

\* data, err := b.ReadFull(), followed on the sizes
CallChunkRanges ==
    /\ ret.op = "Open"
    /\ \E oodle \in OutcomesFor(b) :
        LET r == ChunkRanges(b, Len(file), oodle)
        IN  /\ b' = [b EXCEPT !.cached = (r.err = NoErr /\ b.Header.UncompressedSize > 0)]
            /\ ret' = [op |-> "ReadFull", err |-> r.err, off |-> r.off,
                       slices |-> r.slices, oodle |-> oodle]
    /\ UNCHANGED <<file, gen, io, idx, hin, gf>>

RangesNext == CallChunkRanges

SpecRanges == RangesInit /\ [][RangesNext]_vars

\* C26: chunk tiling: in every ReadFull run, for all int32 header values,
\* each chunk i is written to an output range [off_i, off_i + target_i) with
\* 0 <= off_i and off_i + target_i <= uncompressed_size, the ranges follow
\* one another without gap or overlap, and when ReadFull succeeds the final
\* offset equals uncompressed_size.
C26_Tiling ==
    ret.op = "ReadFull"
        => (/\ \A k \in 1..Len(ret.slices) :
                   /\ 0 <= ret.slices[k].off /\ 0 <= ret.slices[k].target
                   /\ ret.slices[k].target <= b.Header.UncompressedSize - ret.slices[k].off
                   /\ ret.slices[k].off =
                          (IF k = 1 THEN 0
                           ELSE ret.slices[k - 1].off + ret.slices[k - 1].target)
            /\ (ret.err = NoErr => ret.off = b.Header.UncompressedSize))

\* the uncompressed target size of chunk i (0-based) of bundle bn
TargetOf(bn, i) ==
    IF i = bn.Header.ChunkCount - 1 THEN GetLastChunkUncompressedSize(bn.Header)
    ELSE bn.Header.ChunkSize

\* some chunk's compressed size differs from its uncompressed target size
SizeMismatch(bn) ==
    \E i \in 0..(bn.Header.ChunkCount - 1) : bn.CompressedChunkSizes[i + 1] # TargetOf(bn, i)

\* C27: a per-chunk size mismatch makes ReadFull fail and caches nothing:
\* under compressor NONE a chunk whose compressed size differs from its
\* uncompressed target, and under any other compressor a decompressor result
\* of another length than the target, yields an error, no buffer is returned
\* and the cached content stays unset, so that a later ReadFull decodes again.
C27_Mismatch ==
    /\ (/\ ret.op = "ReadFull" /\ b.File = "open" /\ ~ret.wasCached
        /\ b.Header.Compressor = OodleCompressorNone /\ SizeMismatch(b))
            => (ret.err # NoErr /\ ret.data = <<>> /\ ~b.cached)
    /\ (/\ b.exists /\ b.File = "open" /\ ~b.cached
        /\ b.Header.Compressor # OodleCompressorNone /\ b.Header.UncompressedSize > 0)
            => (/\ ReadFull(b, file, "short").err # NoErr
                /\ ReadFull(b, file, "short").data = <<>>
                /\ ~ReadFull(b, file, "short").bundle.cached)

\* C28: after Close on a bundle opened with leaveOpen = false every later
\* ReadFull and ReadAt on the instance returns the closed-bundle error and
\* no data, also when the content was cached before the Close, and a further
\* Close changes nothing and returns nil; with leaveOpen = true Close leaves
\* the bundle as it was, open and readable.
C28_Close ==
    [][/\ (b.exists /\ ret'.op = "Close")
            => (/\ (b.leaveOpen \/ b.File = "nil") => ret'.err = NoErr
                /\ b' = [b EXCEPT !.File = IF b.leaveOpen THEN b.File ELSE "nil"])
       /\ (b.exists /\ b.File = "nil")
            => (/\ b' = b
                /\ ret'.op \in {"ReadFull", "ReadAt"}
                       => (/\ ret'.err = "bundle file is closed or not opened"
                           /\ ret'.data = <<>>))]_vars

C28_Witness ==
    /\ b.exists /\ ~b.leaveOpen /\ b.File = "nil" /\ b.cached /\ b.cachedContent # <<>>
    /\ ret.op = "ReadFull" /\ ret.err = "bundle file is closed or not opened"

----------------------------------------------------------------------------
(* The bridge specification: OpenBundledGGPK on an Index that OpenIndex    *)
(* returned (or on nil when OpenIndex failed), between calls of ParsePaths *)
(* and GetFileByPath.                                                      *)

\* ggpk.OpenFromReader, a routine of another package: it returns a reader
\* over the bytes or an error
GGPKOutcomes == {"ok", "error"}

\* what OpenBundledGGPK returns: the error, the Index afterwards, the record
\* it located (0: none), whether ggpk.OpenFromReader was called, the bytes it
\* was given and whether a GGPK reader was returned
BridgeRet(e, ix, located, called, given) ==
    [err |-> e, idx |-> ix, located |-> located, called |-> called, given |-> given,
     reader |-> e = NoErr]

\* OpenBundledGGPK once idx.ReadFileData has returned r for record i
OpenBundledGGPKRead(r, i, ggpk) ==
    IF r.err # NoErr
    THEN BridgeRet(IF IsPanic(r.err) THEN r.err ELSE "failed to read data for GGPK file",
                   r.idx, i, FALSE, <<>>)
    ELSE IF Len(r.data) = 0
         THEN BridgeRet("extracted GGPK file has no content", r.idx, i, FALSE, <<>>)
         ELSE IF ggpk = "error"
              THEN BridgeRet("failed to parse bundled GGPK file", r.idx, i, TRUE, r.data)
              ELSE BridgeRet(NoErr, r.idx, i, TRUE, r.data)

\* OpenBundledGGPK once the paths are parsed: the scan of the map for a
\* record with Path == pathInBundle meets record scan first
OpenBundledGGPKFind(ix, pathInBundle, scan, f, ggpk) ==
    IF scan \notin ScanMatches(ix.FilesByPathHash, pathInBundle)
    THEN BridgeRet("GGPK file not found in bundle index", ix, 0, FALSE, <<>>)
    ELSE OpenBundledGGPKRead(ReadFileData(ix, scan, f, "ok"), scan, ggpk)

\* ParsePaths as the bridge calls it: only when the paths
\* are not parsed yet
EnsureParsed(ix) == IF ix.pathsParsed THEN [err |-> NoErr, idx |-> ix] ELSE ParsePaths(ix)

\* OpenBundledGGPK once ParsePaths has returned p (or was not called)
OpenBundledGGPKParsed(p, pathInBundle, scan, f, ggpk) ==
    IF p.err # NoErr
    THEN BridgeRet(IF IsPanic(p.err) THEN p.err
                   ELSE "failed to parse paths in bundle index", p.idx, 0, FALSE, <<>>)
    ELSE OpenBundledGGPKFind(p.idx, pathInBundle, scan, f, ggpk)

\* bundledggpk.OpenBundledGGPK(idx, pathInBundle); a nil idx is an Index
\* that is not opened
OpenBundledGGPK(ix, pathInBundle, scan, f, ggpk) ==
    IF ~ix.opened THEN BridgeRet("bundle index is nil", ix, 0, FALSE, <<>>)
    ELSE IF pathInBundle = <<>>
         THEN BridgeRet("pathInBundle cannot be empty", ix, 0, FALSE, <<>>)
         ELSE OpenBundledGGPKParsed(EnsureParsed(ix), pathInBundle, scan, f, ggpk)

\* the manifests of the files specification, and one whose record for "c"
\* has an offset and a size whose int32 sum wraps
BridgeManifests ==
    Manifests
    \cup {[made |-> TRUE, bundles |-> TwoBundles,
           files |-> <<FileAB, ManifestFile(PathC, 0, MaxInt32, 1)>>,
           withDir |-> TRUE, cut |-> 0]}

\* the paths of the index specification, and "c/" and "C"
BridgePaths == IndexPaths \cup {<<99, Slash>>, <<67>>}

BridgeInit ==
    /\ gen \in BridgeManifests
    /\ file \in DataFiles
    /\ idx = OpenIndex(WrapInBundle(WriteIndexContent(gen)), "ok").idx
    /\ ret = [op |-> "OpenIndex",
              err |-> OpenIndex(WrapInBundle(WriteIndexContent(gen)), "ok").err]
    /\ b = NoBundle /\ io = NoIo /\ hin = <<>> /\ gf = NoGGPK

\* the record that the map iteration of the bridge meets first
FirstMatch(ix, pathInBundle) ==
    IF ~ix.opened THEN {0}
    ELSE LET files == EnsureParsed(ix).idx.FilesByPathHash
         IN  IF ScanMatches(files, pathInBundle) = {} THEN {0}
             ELSE ScanMatches(files, pathInBundle)

\* ggpkFile, err := bundledggpk.OpenBundledGGPK(idx, pathInBundle)
CallOpenBundledGGPK ==
    \E pathInBundle \in BridgePaths, ggpk \in GGPKOutcomes :
        \E scan \in FirstMatch(idx, pathInBundle) :
            LET r == OpenBundledGGPK(idx, pathInBundle, scan, file, ggpk)
            IN  /\ idx' = r.idx
                /\ ret' = [op |-> "OpenBundledGGPK", path |-> pathInBundle, err |-> r.err,
                           located |-> r.located, called |-> r.called, given |-> r.given,
                           reader |-> r.reader, before |-> idx]
                /\ UNCHANGED <<file, gen, b, io, hin, gf>>

BridgeNext == FilesParsePaths \/ FilesGetFileByPath \/ CallOpenBundledGGPK

SpecBridge == BridgeInit /\ [][BridgeNext]_vars

----------------------------------------------------------------------------
(* Claims about the keys of the file map and about the bridge to the GGPK  *)
(* reader.                                                                *)

\* C29: after any sequence of OpenIndex, ParsePaths and GetFileByPath the
\* file map holds one record per key k, that record has PathHash = k, and if
\* its Path is not empty then NameHash(Path) = k.
C29_Keys ==
    idx.opened
        => \A i \in 1..Len(idx.FilesByPathHash) :
               /\ \A j \in 1..Len(idx.FilesByPathHash) :
                      idx.FilesByPathHash[j].PathHash = idx.FilesByPathHash[i].PathHash
                          => j = i
               /\ idx.FilesByPathHash[i].Path # <<>>
                      => (/\ NameHash(idx, idx.FilesByPathHash[i].Path).err = NoErr
                          /\ NameHash(idx, idx.FilesByPathHash[i].Path).hash
                                 = idx.FilesByPathHash[i].PathHash)

C29_Witness ==
    /\ idx.opened /\ ret.op = "GetFileByPath" /\ ret.err = NoErr /\ ret.path = <<120>>
    /\ \E i \in 1..Len(idx.FilesByPathHash) : idx.FilesByPathHash[i].Path = <<120>>
    /\ \E i \in 1..Len(idx.FilesByPathHash) : idx.FilesByPathHash[i].Path = PathAB

\* the bridge returned an error and did not call ggpk.OpenFromReader
Rejected == ret.err # NoErr /\ ~IsPanic(ret.err) /\ ~ret.called /\ ~ret.reader

\* C21: OpenBundledGGPK returns an error and opens no GGPK reader when the
\* index is nil, the path is empty, path parsing fails, no file record has
\* the path, reading the record's data fails, or the extracted bytes are
\* empty; otherwise it opens the GGPK reader over exactly the bytes that
\* Index.ReadFileData returned for that record.
C21_Bridge ==
    ret.op = "OpenBundledGGPK"
        => IF \/ ~ret.before.opened \/ ret.path = <<>>
              \/ EnsureParsed(ret.before).err # NoErr
              \/ ScanMatches(EnsureParsed(ret.before).idx.FilesByPathHash, ret.path) = {}
           THEN Rejected
           ELSE \E i \in ScanMatches(EnsureParsed(ret.before).idx.FilesByPathHash, ret.path) :
                    IF \/ ReadFileData(EnsureParsed(ret.before).idx, i, file, "ok").err # NoErr
                       \/ ReadFileData(EnsureParsed(ret.before).idx, i, file, "ok").data = <<>>
                    THEN Rejected
                    ELSE /\ ret.called /\ ret.located = i
                         /\ ret.given
                                = ReadFileData(EnsureParsed(ret.before).idx, i, file, "ok").data

\* C30: the bridge's record lookup agrees with the Index lookup: for every
\* index state and every non-empty path p, OpenBundledGGPK locates a file
\* record for p if and only if Index.GetFileByPath(p) returns a record, and
\* then the same one, also for a path that differs from the stored Path in
\* letter case or by a trailing slash and for a record whose Path ParsePaths
\* did not resolve.
C30_SameLookup ==
    (/\ ret.op = "OpenBundledGGPK" /\ ret.before.opened /\ ret.path # <<>>
     /\ EnsureParsed(ret.before).err = NoErr)
        => \A scan \in FirstMatch(ret.before, ret.path) :
               /\ (ret.located # 0)
                      = (GetFileByPath(ret.before, ret.path, scan).err = NoErr)
               /\ ret.located # 0
                      => GetFileByPath(ret.before, ret.path, scan).rec
                             = Found(EnsureParsed(ret.before).idx.FilesByPathHash[ret.located])

----------------------------------------------------------------------------
(* The GGPK specification: a GGPK file as the test of ggpktool writes it   *)
(* (a GGPK record, a root PDIR with one entry, one FILE record), opened    *)
(* and read by ggpktool's extract action. The reader of package ggpk       *)
(* follows the record layout of the format description: a FILE record's    *)
(* data starts after the header bytes consumed (length, tag, name length,  *)
(* hash, UTF-16 name with its NUL) and runs to the end of the record.      *)

HashSize == 32

GGPKRecordTag == <<71, 71, 80, 75>>

PDirRecordTag == <<80, 68, 73, 82>>

FileRecordTag == <<70, 73, 76, 69>>

\* binary.Write of each rune as uint16, then of the null terminator
RECURSIVE Utf16(_)
Utf16(name) == IF Len(name) = 0 THEN <<0, 0>> ELSE <<Head(name), 0>> \o Utf16(Tail(name))

\* a hash field with a dummy first byte
HashField(first) == [j \in 1..HashSize |-> IF j = 1 THEN first ELSE 0]

\* the header bytes of a FILE record whose name has nameLenChars code units
FileHeaderSize(nameLenChars) == 4 + 4 + 4 + HashSize + 2 * nameLenChars

RootDirLength == 4 + 4 + 4 + 4 + HashSize + 2 + 12

WriteGGPKHeader == LE32(28) \o GGPKRecordTag \o LE32(3) \o LE64(28) \o LE64(0)

WriteRootDir(offsetFile1) ==
    LE32(RootDirLength) \o PDirRecordTag \o LE32(1) \o LE32(1) \o HashField(170)
    \o Utf16(<<>>) \o LE32(305419896) \o LE64(offsetFile1)

WriteFileRecord(name, data) ==
    LE32(FileHeaderSize(Len(name) + 1) + Len(data)) \o FileRecordTag
    \o LE32(Len(name) + 1) \o HashField(187) \o Utf16(name) \o data

\* createTestGGPKFile for a file name and its data; cut bytes are missing at
\* the end of the file
createTestGGPKFile(g) ==
    SubSeq(WriteGGPKHeader \o WriteRootDir(28 + RootDirLength) \o WriteFileRecord(g.name, g.data),
           1,
           Max(0, Len(WriteGGPKHeader) + RootDirLength
                  + Len(WriteFileRecord(g.name, g.data)) - g.cut))

\* ggpk.Open: the first record has to be the GGPK record
GGPKOpen(src) ==
    IF Len(src) < 28 THEN [err |-> "failed to read GGPK record", gf |-> NoGGPK]
    ELSE IF SubSeq(src, 5, 8) # GGPKRecordTag
         THEN [err |-> "not a GGPK record", gf |-> NoGGPK]
         ELSE [err |-> NoErr, gf |-> [opened |-> TRUE, RootOffset |-> ReadInt32(src, 12)]]

NoNode == [kind |-> "none"]

RecordErr(e) == [err |-> e, node |-> NoNode]

\* the name of n code units at byte offset off, without its final NUL
ReadName(src, off, n) == [j \in 1..(n - 1) |-> src[off + 2 * j - 1]]

\* a FILE record whose data is taken to start before the NUL of the name
ReadFileRecordNoNul(src, offset, length) ==
    IF Len(src) - offset < 12 \/ ReadInt32(src, offset + 8) < 1
       \/ Len(src) - offset < FileHeaderSize(ReadInt32(src, offset + 8))
    THEN RecordErr("failed to read FILE record")
    ELSE [err |-> NoErr,
          node |-> [kind |-> "file", Offset |-> offset, Length |-> length,
                    Name |-> ReadName(src, offset + 12 + HashSize,
                                      ReadInt32(src, offset + 8)),
                    DataOffset |-> offset + FileHeaderSize(ReadInt32(src, offset + 8) - 1),
                    DataSize |-> length - FileHeaderSize(ReadInt32(src, offset + 8) - 1)]]

\* a FILE record at offset: name length, hash, name; the data follows
ReadFileRecord(src, offset, length) ==
    IF Len(src) - offset < 12 \/ ReadInt32(src, offset + 8) < 1
       \/ Len(src) - offset < FileHeaderSize(ReadInt32(src, offset + 8))
    THEN RecordErr("failed to read FILE record")
    ELSE [err |-> NoErr,
          node |-> [kind |-> "file", Offset |-> offset, Length |-> length,
                    Name |-> ReadName(src, offset + 12 + HashSize,
                                      ReadInt32(src, offset + 8)),
                    DataOffset |-> offset + FileHeaderSize(ReadInt32(src, offset + 8)),
                    DataSize |-> length - FileHeaderSize(ReadInt32(src, offset + 8))]]

\* a PDIR record at offset: name length, entry count, hash, name, and the
\* child offset of every entry
ReadDirRecord(src, offset, nameLenChars, entryCount) ==
    IF nameLenChars < 1 \/ entryCount < 0
       \/ Len(src) - offset < 16 + HashSize + 2 * nameLenChars + 12 * entryCount
    THEN RecordErr("failed to read PDIR record")
    ELSE [err |-> NoErr,
          node |-> [kind |-> "dir", Offset |-> offset,
                    Name |-> ReadName(src, offset + 16 + HashSize, nameLenChars),
                    Entries |-> [k \in 1..entryCount |->
                                    ReadInt32(src, offset + 16 + HashSize + 2 * nameLenChars
                                                   + 12 * (k - 1) + 4)]]]

\* the record at offset, dispatched on its tag
ReadRecord(src, offset) ==
    IF offset < 0 \/ Len(src) - offset < 8 THEN RecordErr("failed to read record header")
    ELSE IF SubSeq(src, offset + 5, offset + 8) = FileRecordTag
         THEN ReadFileRecord(src, offset, ReadInt32(src, offset))
    ELSE IF SubSeq(src, offset + 5, offset + 8) = PDirRecordTag
         THEN IF Len(src) - offset < 16 THEN RecordErr("failed to read PDIR record")
              ELSE ReadDirRecord(src, offset, ReadInt32(src, offset + 8),
                                 ReadInt32(src, offset + 12))
    ELSE RecordErr("corrupt record")

\* the child of directory node dir that is named name: the children are read
\* in entry order and compared by name
RECURSIVE FindChild(_, _, _, _)
FindChild(src, dir, name, k) ==
    IF k > Len(dir.Entries) THEN RecordErr("path not found")
    ELSE IF ReadRecord(src, dir.Entries[k]).err # NoErr
         THEN ReadRecord(src, dir.Entries[k])
    ELSE IF ReadRecord(src, dir.Entries[k]).node.Name = name
         THEN ReadRecord(src, dir.Entries[k])
    ELSE FindChild(src, dir, name, k + 1)

\* gf.GetNodeByPath for a path of at most one component: the root, or the
\* child of the root with that name
GetNodeByPath(src, g, path) ==
    IF ReadRecord(src, g.RootOffset).err # NoErr \/ path = <<>>
    THEN ReadRecord(src, g.RootOffset)
    ELSE IF ReadRecord(src, g.RootOffset).node.kind # "dir"
         THEN RecordErr("root is not a directory")
         ELSE FindChild(src, ReadRecord(src, g.RootOffset).node, path, 1)

\* gf.ReadFileData: the data bytes of a file node, bounds-checked against
\* the length of the source
GGPKReadFileData(src, node) ==
    IF node.DataSize < 0 \/ node.DataOffset + node.DataSize > Len(src)
    THEN [err |-> "file data out of bounds", data |-> <<>>]
    ELSE [err |-> NoErr,
          data |-> SubSeq(src, node.DataOffset + 1, node.DataOffset + node.DataSize)]

\* what extractFile returns, the node it found and the bytes it wrote
ExtractRet(e, node, out) == [err |-> e, node |-> node, out |-> out]

\* extractFile(gf, itemPath, outFilePath); the output file can be written
extractFile(src, g, itemPath) ==
    IF GetNodeByPath(src, g, itemPath).err # NoErr
    THEN ExtractRet(GetNodeByPath(src, g, itemPath).err, NoNode, <<>>)
    ELSE IF GetNodeByPath(src, g, itemPath).node.kind # "file"
    THEN ExtractRet("path is not a file", GetNodeByPath(src, g, itemPath).node, <<>>)
    ELSE IF GGPKReadFileData(src, GetNodeByPath(src, g, itemPath).node).err # NoErr
    THEN ExtractRet("failed to read file data", GetNodeByPath(src, g, itemPath).node, <<>>)
    ELSE ExtractRet(NoErr, GetNodeByPath(src, g, itemPath).node,
                    GGPKReadFileData(src, GetNodeByPath(src, g, itemPath).node).data)

\* file names "f" and "f1", data of 0..3 bytes, and files that miss up to
\* two bytes or all but their first 20 bytes
GGPKGens ==
    {[made |-> TRUE, name |-> n, data |-> Payload(len), cut |-> c] :
        n \in {<<102>>, <<102, 49>>}, len \in 0..3, c \in {0, 1, 2, RootDirLength + 60}}

\* the paths given to -path: the two file names, a name that is not there,
\* and the empty path
GGPKPaths == {<<102>>, <<102, 49>>, <<103>>, <<>>}

GGPKInit ==
    /\ gen \in GGPKGens
    /\ file = createTestGGPKFile(gen)
    /\ gf = NoGGPK
    /\ ret = [op |-> "none"]
    /\ b = NoBundle /\ io = NoIo /\ idx = NoIndex /\ hin = <<>>

\* gf, err := ggpk.Open(*ggpkPath)
CallGGPKOpen ==
    /\ ret.op = "none"
    /\ gf' = GGPKOpen(file).gf
    /\ ret' = [op |-> "Open", err |-> GGPKOpen(file).err]
    /\ UNCHANGED <<file, gen, b, io, idx, hin>>

\* err = extractFile(gf, *itemPath, outFilePath)
CallExtractFile ==
    /\ gf.opened
    /\ \E itemPath \in GGPKPaths :
        ret' = [op |-> "extractFile", path |-> itemPath,
                err |-> extractFile(file, gf, itemPath).err,
                node |-> extractFile(file, gf, itemPath).node,
                out |-> extractFile(file, gf, itemPath).out]
    /\ UNCHANGED <<file, gen, b, io, idx, hin, gf>>

GGPKNext == CallGGPKOpen \/ CallExtractFile

SpecGGPK == GGPKInit /\ [][GGPKNext]_vars

\* C22: GGPK bounds: for every file node of an opened GGPK, ReadFileData
\* returns exactly data_size bytes and they equal the source bytes at
\* [data_offset, data_offset + data_size), where data_offset is the record
\* start plus the consumed header bytes and data_size is the record length
\* minus those header bytes; for a file written whole these are the bytes
\* the writer stored.
C22_Bounds ==
    (ret.op = "extractFile" /\ ret.node.kind = "file")
        => (/\ ret.node.DataOffset
                   = ret.node.Offset + FileHeaderSize(Len(ret.node.Name) + 1)
            /\ ret.node.DataSize
                   = ret.node.Length - FileHeaderSize(Len(ret.node.Name) + 1)
            /\ (ret.node.DataSize >= 0
                /\ ret.node.DataOffset + ret.node.DataSize <= Len(file))
                   => (/\ ret.err = NoErr
                       /\ Len(ret.out) = ret.node.DataSize
                       /\ ret.out = SubSeq(file, ret.node.DataOffset + 1,
                                           ret.node.DataOffset + ret.node.DataSize))
            /\ ret.err = NoErr => Len(ret.out) = ret.node.DataSize
            /\ gen.cut = 0 => (ret.err = NoErr /\ ret.out = gen.data))

C22_Witness ==
    /\ ret.op = "extractFile" /\ ret.node.kind = "file" /\ ret.err = NoErr
    /\ gen.name = <<102, 49>> /\ ret.out = <<65, 66, 67>>
    /\ ret.node.DataOffset = ret.node.Offset + 50

============================================================================
